---- MODULE Spec2Model ----
(***************************************************************************)
(* A model of the locale store of vibe-i18n (src/src/I18nHelper.js): the   *)
(* locale files on disk, the helper's scanned locale list, and the calls   *)
(* loadLocale / saveLocale / get / set / setMultiple / has / copy and      *)
(* _getAllPaths, each translated from its JavaScript.                      *)
(*                                                                         *)
(* A JSON value is a record [t, s, kv]: t is the JavaScript type tag,      *)
(* s the text of a scalar, kv the ordered own properties of a container    *)
(* (array elements are the properties "0", "1", ...).  A file is a         *)
(* sequence of tokens, written by Stringify and read back by Parse.        *)
(***************************************************************************)
EXTENDS Integers, Sequences, FiniteSets, TLC

VARIABLES
    jsonFile,   \* locale -> tokens of <locale>.json, or Absent
    jsFile,     \* locale -> tokens of <locale>.js, or Absent
    locales,    \* this.locales: the list scanLocales returned at construction
    heapDirty,  \* a set() has already written properties onto a built-in function object
    last,       \* the last call: its arguments, the branch it took, what it returned
    calls,      \* number of calls made so far
    pending     \* a set() that has loaded its document and not yet saved it

vars == <<jsonFile, jsFile, locales, heapDirty, last, calls, pending>>

\* ------------------------------------------------------------------ bounds
MaxCalls == 2
MaxDepth == 2

\* ------------------------------------------------------------- JSON values
Entry(k, v) == [k |-> k, v |-> v]

\* F(x), with x evaluated once (a LET name is evaluated at each use)
Bind(x, F(_)) == CHOOSE y \in {F(v) : v \in {x}} : TRUE

Null == [t |-> "null", s |-> "", kv |-> <<>>]
Undefined == [t |-> "undefined", s |-> "", kv |-> <<>>]
Str(x) == [t |-> "str", s |-> x, kv |-> <<>>]
Num(x) == [t |-> "num", s |-> x, kv |-> <<>>]
Bool(b) == [t |-> "bool", s |-> IF b THEN "true" ELSE "false", kv |-> <<>>]
Obj(kv) == [t |-> "obj", s |-> "", kv |-> kv]
Arr(kv) == [t |-> "arr", s |-> "", kv |-> kv]
\* Object.prototype.constructor and its kin: a built-in function object
Fn == [t |-> "fn", s |-> "", kv |-> <<>>]

EmptyObj == Obj(<<>>)

IndexName == <<"0", "1", "2", "3">>

\* the array literal [e1, e2, ...]
ArrOf(elems) == Arr([i \in 1..Len(elems) |-> Entry(IndexName[i], elems[i])])

\* the numbers JSON cannot write
NonFinite == {"NaN", "Infinity", "-Infinity"}

\* !value
Falsy(n) ==
    \/ n.t \in {"null", "undefined"}
    \/ n.t = "str" /\ n.s = ""
    \/ n.t = "num" /\ n.s \in {"0", "NaN"}
    \/ n.t = "bool" /\ n.s = "false"

\* value && typeof value === 'object'
IsObjectType(n) == n.t \in {"obj", "arr"}

\* names every object inherits from its prototype (the one the paths use)
InheritedKeys == {"constructor"}

HasOwn(n, k) == \E i \in 1..Len(n.kv) : n.kv[i].k = k

OwnIndex(n, k) == CHOOSE i \in 1..Len(n.kv) : n.kv[i].k = k

\* key in current, for a current the operator accepts
KeyIn(k, n) == HasOwn(n, k) \/ k \in InheritedKeys

\* current[key], for a key that is in current
Lookup(n, k) == IF HasOwn(n, k) THEN n.kv[OwnIndex(n, k)].v ELSE Fn

\* the `in` operator and a strict-mode property assignment both throw a
\* TypeError on a primitive or null
IsObjectLike(n) == n.t \in {"obj", "arr", "fn"}

\* an assignment that leaves the object with the assigned property alone
AssignAlone(n, k, v) ==
    IF n.t = "fn" THEN n ELSE [n EXCEPT !.kv = <<Entry(k, v)>>]

\* current[key] = value: an own property is overwritten in place, a new one is
\* appended; a write to a built-in function object lands outside the document
Assign(n, k, v) ==
    IF n.t = "fn" THEN n
    ELSE IF HasOwn(n, k)
         THEN [n EXCEPT !.kv[OwnIndex(n, k)].v = v]
         ELSE [n EXCEPT !.kv = Append(n.kv, Entry(k, v))]

\* ------------------------------------------------- JSON.stringify / JSON.parse
Tok(k, s) == [k |-> k, s |-> s]

P(c) == Tok(c, "")

IsIndexKey(k) == \E i \in 1..Len(IndexName) : IndexName[i] = k

\* what JSON.stringify leaves out of an object and writes as null in an array
Unwritable(n) == n.t \in {"undefined", "fn"}

RECURSIVE Stringify(_), StringifyMembers(_, _, _), StringifyElements(_, _, _)

\* a serializer that writes true and false as the strings "true" and "false"
StringifyQuoted(n) ==
    CASE n.t = "str" -> <<Tok("str", n.s)>>
      [] n.t = "num" -> IF n.s \in NonFinite THEN <<Tok("lit", "null")>>
                        ELSE IF n.s = "-0" THEN <<Tok("num", "0")>>
                        ELSE <<Tok("num", n.s)>>
      [] n.t = "bool" -> <<Tok("str", n.s)>>
      [] n.t = "obj" -> <<P("{")>> \o StringifyMembers(n.kv, 1, TRUE) \o <<P("}")>>
      [] n.t = "arr" -> <<P("[")>> \o StringifyElements(n.kv, 1, TRUE) \o <<P("]")>>
      [] OTHER -> <<Tok("lit", "null")>>

\* JSON.stringify(value, null, 2), white space left out
Stringify(n) ==
    CASE n.t = "str" -> <<Tok("str", n.s)>>
      [] n.t = "num" -> IF n.s \in NonFinite THEN <<Tok("lit", "null")>>
                        ELSE IF n.s = "-0" THEN <<Tok("num", "0")>>
                        ELSE <<Tok("num", n.s)>>
      [] n.t = "bool" -> <<Tok("lit", n.s)>>
      [] n.t = "obj" -> <<P("{")>> \o StringifyMembers(n.kv, 1, TRUE) \o <<P("}")>>
      [] n.t = "arr" -> <<P("[")>> \o StringifyElements(n.kv, 1, TRUE) \o <<P("]")>>
      [] OTHER -> <<Tok("lit", "null")>>

StringifyMembers(kv, i, first) ==
    IF i > Len(kv) THEN <<>>
    ELSE IF Unwritable(kv[i].v) THEN StringifyMembers(kv, i + 1, first)
    ELSE (IF first THEN <<>> ELSE <<P(",")>>)
         \o <<Tok("str", kv[i].k), P(":")>> \o Stringify(kv[i].v)
         \o StringifyMembers(kv, i + 1, FALSE)

\* only the indexed elements of an array are written
StringifyElements(kv, i, first) ==
    IF i > Len(kv) THEN <<>>
    ELSE IF ~IsIndexKey(kv[i].k) THEN StringifyElements(kv, i + 1, first)
    ELSE (IF first THEN <<>> ELSE <<P(",")>>)
         \o (IF Unwritable(kv[i].v) THEN <<Tok("lit", "null")>> ELSE Stringify(kv[i].v))
         \o StringifyElements(kv, i + 1, FALSE)

Bad == [ok |-> FALSE, node |-> Null, next |-> 0]

Good(n, next) == [ok |-> TRUE, node |-> n, next |-> next]

IsTok(toks, i, k) == i <= Len(toks) /\ toks[i].k = k

RECURSIVE ParseValue(_, _), ParseMembers(_, _, _), ParseElements(_, _, _)

\* one JSON value starting at token i
ParseValue(toks, i) ==
    IF i > Len(toks) THEN Bad
    ELSE CASE toks[i].k = "str" -> Good(Str(toks[i].s), i + 1)
           [] toks[i].k = "num" -> Good(Num(toks[i].s), i + 1)
           [] toks[i].k = "lit" ->
                Good(IF toks[i].s = "null" THEN Null ELSE Bool(toks[i].s = "true"), i + 1)
           [] toks[i].k = "{" ->
                IF IsTok(toks, i + 1, "}") THEN Good(EmptyObj, i + 2)
                ELSE ParseMembers(toks, i + 1, EmptyObj)
           [] toks[i].k = "[" ->
                IF IsTok(toks, i + 1, "]") THEN Good(Arr(<<>>), i + 2)
                ELSE ParseElements(toks, i + 1, Arr(<<>>))
           [] OTHER -> Bad

\* "key": value, ... } ; a repeated key keeps its place and takes the last value
ParseMembers(toks, i, acc) ==
    IF ~(IsTok(toks, i, "str") /\ IsTok(toks, i + 1, ":")) THEN Bad
    ELSE Bind(ParseValue(toks, i + 2), LAMBDA v :
         IF ~v.ok THEN Bad
         ELSE Bind(Assign(acc, toks[i].s, v.node), LAMBDA acc2 :
              IF IsTok(toks, v.next, "}") THEN Good(acc2, v.next + 1)
              ELSE IF IsTok(toks, v.next, ",") THEN ParseMembers(toks, v.next + 1, acc2)
              ELSE Bad))

ParseElements(toks, i, acc) ==
    Bind(ParseValue(toks, i), LAMBDA v :
    IF ~v.ok \/ Len(acc.kv) >= Len(IndexName) THEN Bad
    ELSE Bind(Assign(acc, IndexName[Len(acc.kv) + 1], v.node), LAMBDA acc2 :
         IF IsTok(toks, v.next, "]") THEN Good(acc2, v.next + 1)
         ELSE IF IsTok(toks, v.next, ",") THEN ParseElements(toks, v.next + 1, acc2)
         ELSE Bad))

\* JSON.parse(text): the value, or a SyntaxError (ok = FALSE)
JsonParse(toks) ==
    Bind(ParseValue(toks, 1), LAMBDA v :
         IF v.ok /\ v.next = Len(toks) + 1 THEN v ELSE Bad)

\* ------------------------------------------------------------ locale files
NoFile == [exists |-> FALSE, text |-> <<>>]

File(text) == [exists |-> TRUE, text |-> text]

\* the locale identifiers, in the order Array.prototype.sort() puts them
LocaleOrder == <<"en-US", "zh-hans">>

Locales == {LocaleOrder[i] : i \in 1..Len(LocaleOrder)}

\* every locale identifier a directory of the model may hold, as sort() orders
\* them
SortedNames == <<"de-DE", "en-US", "fr-FR", "zh-hans">>

\* the identifiers of the directory `json` describes, sorted
DirOrder(json) == SelectSeq(SortedNames, LAMBDA l : l \in DOMAIN json)

RECURSIVE ScanFrom(_, _, _)

\* readdirSync lists <locale>.js before <locale>.json; both pass the filter
ScanFrom(json, js, i) ==
    LET order == DirOrder(json) IN
    IF i > Len(order) THEN <<>>
    ELSE (IF js[order[i]].exists THEN <<order[i]>> ELSE <<>>)
         \o (IF json[order[i]].exists THEN <<order[i]>> ELSE <<>>)
         \o ScanFrom(json, js, i + 1)

\* scanLocales(): the base names of the .js and .json files, sorted
scanLocales(json, js) == ScanFrom(json, js, 1)

\* this.locales.includes(locale)
Includes(list, x) == \E i \in 1..Len(list) : list[i] = x

\* the index of the last "}" token, 0 if there is none
LastBrace(text) ==
    IF \E i \in 1..Len(text) : text[i].k = "}"
    THEN CHOOSE i \in 1..Len(text) :
            text[i].k = "}" /\ \A j \in (i + 1)..Len(text) : text[j].k # "}"
    ELSE 0

\* the object literal a .js locale file exports, as the two regular
\* expressions of loadLocale cut it out: from the "{" after the export to the
\* last "}" that only an optional ";" follows; <<>> when neither matches
JsExtract(text) ==
    LET e == LastBrace(text) IN
    IF /\ Len(text) >= 3
       /\ text[1].k = "export"
       /\ text[2].k = "{"
       /\ e > 2
       /\ \A j \in (e + 1)..Len(text) : text[j].k = ";"
       /\ Len(text) - e <= 1
    THEN SubSeq(text, 2, e)
    ELSE <<>>

\* a loader that answers an empty document where loadLocale answers null
loadLocaleLenient(json, js, locale) ==
    IF json[locale].exists /\ JsonParse(json[locale].text).ok
    THEN [ok |-> TRUE, node |-> JsonParse(json[locale].text).node]
    ELSE [ok |-> TRUE, node |-> EmptyObj]

\* loadLocale(locale): [ok, node]; ok = FALSE is the null it returns
loadLocale(json, js, locale) ==
    IF json[locale].exists
    THEN Bind(JsonParse(json[locale].text), LAMBDA r : [ok |-> r.ok, node |-> r.node])
    ELSE IF js[locale].exists
    THEN Bind(JsExtract(js[locale].text), LAMBDA m :
         IF m = <<>> THEN [ok |-> FALSE, node |-> Null]
         ELSE Bind(JsonParse(m), LAMBDA r : [ok |-> r.ok, node |-> r.node]))
    ELSE [ok |-> FALSE, node |-> Null]

\* saveLocale(locale, content): the new <locale>.json
saveLocale(json, locale, content) ==
    [json EXCEPT ![locale] = File(Stringify(content))]

\* --------------------------------------------------------------- key paths
\* A path string is modelled by the sequence of its dot-separated segments,
\* which is what path.split('.') makes of it.  A document key, though, may
\* itself contain dots: joined into a path string it contributes one segment
\* for each dot-free part.
DotSegments(key) == IF key = "a.b" THEN <<"a", "b">> ELSE <<key>>

\* prefix ? `${prefix}.${key}` : key
JoinPath(prefix, key) == prefix \o DotSegments(key)

RECURSIVE GetIn(_, _)

\* the walk of get(): lines 138-146
GetIn(current, keys) ==
    IF keys = <<>> THEN current
    ELSE IF IsObjectType(current) /\ KeyIn(Head(keys), current)
         THEN GetIn(Lookup(current, Head(keys)), Tail(keys))
         ELSE Null

\* get(locale, path)
get(json, js, locale, path) ==
    Bind(loadLocale(json, js, locale), LAMBDA content :
         IF ~content.ok \/ Falsy(content.node) THEN Null
         ELSE GetIn(content.node, path))

\* a has that takes every falsy value for a missing one
hasTruthy(json, js, locale, path) == ~Falsy(get(json, js, locale, path))

\* has(locale, path)
has(json, js, locale, path) == get(json, js, locale, path) # Null

Threw(wrote) == [out |-> "threw", node |-> Null, heap |-> wrote, via |-> FALSE]

RECURSIVE SetIn(_, _, _, _)

\* the walk and the assignment of set(), lines 164-181, on the node `current`:
\* out is the branch taken, node is `current` after the call's writes; via
\* tells that the walk went through a built-in function object, heap that it
\* wrote a property onto one
SetIn(current, keys, value, skipIfExists) ==
    LET key == Head(keys)
        fn == current.t = "fn"
    IN
    IF Len(keys) = 1
    THEN IF skipIfExists /\ ~IsObjectLike(current) THEN Threw(FALSE)
         ELSE IF skipIfExists /\ KeyIn(key, current)
              THEN [out |-> "skipped", node |-> current, heap |-> FALSE, via |-> fn]
         ELSE IF ~IsObjectLike(current) THEN Threw(FALSE)
         ELSE [out |-> "applied", node |-> Assign(current, key, value),
               heap |-> fn, via |-> fn]
    ELSE IF ~IsObjectLike(current) THEN Threw(FALSE)
         ELSE LET present == KeyIn(key, current)
                  cur1 == IF present THEN current ELSE Assign(current, key, EmptyObj)
                  child == IF present THEN Lookup(current, key) ELSE EmptyObj
              IN Bind(SetIn(child, Tail(keys), value, skipIfExists), LAMBDA r :
                 IF r.out = "threw" THEN Threw(r.heap \/ (~present /\ fn))
                 ELSE [out |-> r.out,
                       node |-> IF HasOwn(cur1, key) THEN Assign(cur1, key, r.node)
                                ELSE cur1,
                       heap |-> r.heap \/ (~present /\ fn),
                       via |-> fn \/ r.via])

\* what a walk through a built-in function object can meet there: "fresh" when
\* no earlier set() of the process has written onto one, else any branch
Hints(path, skipIfExists, dirty) ==
    IF ~dirty \/ \A i \in 1..Len(path) : path[i] \notin InheritedKeys THEN {"fresh"}
    ELSE {"applied", "threw"} \cup (IF skipIfExists THEN {"skipped"} ELSE {})

\* set() from line 158 on, `content` being what loadLocale returned
setLoaded(content, path, value, skipIfExists, hint) ==
    IF ~content.ok \/ Falsy(content.node)
    THEN [out |-> "failed", node |-> Null, heap |-> FALSE, via |-> FALSE]
    ELSE Bind(SetIn(content.node, path, value, skipIfExists), LAMBDA r :
              IF r.via /\ hint # "fresh"
              THEN [r EXCEPT !.out = hint, !.heap = TRUE]
              ELSE r)

\* set(locale, path, value, skipIfExists): the branch taken and the document
\* it leaves in memory
set(json, js, locale, path, value, skipIfExists, hint) ==
    Bind(loadLocale(json, js, locale), LAMBDA content :
         setLoaded(content, path, value, skipIfExists, hint))

\* what set() returns to its caller on each branch (a throw returns nothing)
SetReturn(out) ==
    CASE out = "applied" -> Bool(TRUE)
      [] out = "skipped" -> Bool(FALSE)
      [] out = "failed" -> Bool(FALSE)
      [] OTHER -> Undefined

\* the files after set(): saveLocale runs on the applied branch only
SetFiles(json, locale, r) ==
    IF r.out = "applied" THEN saveLocale(json, locale, r.node) ELSE json

\* the state a batch of set() calls threads through its loop
Batch(json) ==
    [json |-> json, results |-> EmptyObj, outs |-> EmptyObj, threw |-> FALSE,
     heap |-> FALSE]

\* one turn of the loop: set() for one entry, on the state acc
SetOneWith(acc, r, locale) ==
    IF r.out = "threw"
    THEN [acc EXCEPT !.threw = TRUE, !.heap = acc.heap \/ r.heap,
                     !.outs = Assign(acc.outs, locale, Str("threw"))]
    ELSE [json |-> SetFiles(acc.json, locale, r),
          results |-> Assign(acc.results, locale, SetReturn(r.out)),
          outs |-> Assign(acc.outs, locale, Str(r.out)),
          threw |-> FALSE,
          heap |-> acc.heap \/ r.heap]

SetOne(acc, js, known, checked, entry, path, skipIfExists, dirty, hint) ==
    IF acc.threw THEN acc
    ELSE IF checked /\ ~Includes(known, entry.k)
    THEN [acc EXCEPT !.results = Assign(acc.results, entry.k, Bool(FALSE)),
                     !.outs = Assign(acc.outs, entry.k, Str("unknown"))]
    ELSE Bind(set(acc.json, js, entry.k, path, entry.v, skipIfExists,
                  IF dirty \/ acc.heap THEN hint ELSE "fresh"),
              LAMBDA r : SetOneWith(acc, r, entry.k))

RECURSIVE SetEach(_, _, _, _, _, _, _, _, _, _)

SetEach(acc, js, known, checked, entries, i, path, skipIfExists, dirty, hint) ==
    IF i > Len(entries) THEN acc
    ELSE Bind(SetOne(acc, js, known, checked, entries[i], path, skipIfExists, dirty, hint),
              LAMBDA next : SetEach(next, js, known, checked, entries, i + 1, path,
                                    skipIfExists, dirty, hint))

\* setMultiple(translations, path, skipIfExists)
setMultiple(json, js, known, translations, path, skipIfExists, dirty, hint) ==
    SetEach(Batch(json), js, known, TRUE, translations.kv, 1, path, skipIfExists,
            dirty, hint)

\* this.locales.filter(l => l !== sourceLocale)
Others(known, sourceLocale) == SelectSeq(known, LAMBDA l : l # sourceLocale)

\* copy(sourceLocale, path, targetLocales) once the source value is found:
\* targetLocales is the list given, or <<>> standing for the default null
copyTargets(known, sourceLocale, targetLocales) ==
    IF targetLocales = <<>> THEN Others(known, sourceLocale) ELSE targetLocales

copy(json, js, known, sourceLocale, path, targetLocales, dirty, hint) ==
    Bind(get(json, js, sourceLocale, path), LAMBDA sourceValue :
    Bind(copyTargets(known, sourceLocale, targetLocales), LAMBDA targets :
         SetEach(Batch(json), js, known, FALSE,
                 [i \in 1..Len(targets) |-> Entry(targets[i], sourceValue)],
                 1, path, FALSE, dirty, hint)))

RECURSIVE getAllPathsFrom(_, _, _)

\* an enumeration that descends into arrays as it does into objects
getAllPathsIntoArrays(obj, prefix, i) ==
    IF i > Len(obj.kv) THEN <<>>
    ELSE LET path == JoinPath(prefix, obj.kv[i].k)
             value == obj.kv[i].v
         IN (IF ~Falsy(value) /\ IsObjectType(value)
             THEN getAllPathsFrom(value, path, 1)
             ELSE <<path>>)
            \o getAllPathsFrom(obj, prefix, i + 1)

\* _getAllPaths(obj, prefix): lines 610-624, entry i onwards
getAllPathsFrom(obj, prefix, i) ==
    IF i > Len(obj.kv) THEN <<>>
    ELSE LET path == JoinPath(prefix, obj.kv[i].k)
             value == obj.kv[i].v
         IN (IF ~Falsy(value) /\ value.t = "obj"
             THEN getAllPathsFrom(value, path, 1)
             ELSE <<path>>)
            \o getAllPathsFrom(obj, prefix, i + 1)

getAllPaths(obj) == getAllPathsFrom(obj, <<>>, 1)

\* ------------------------------------------------------------ completeness
\* const baseLocale = 'en-US'
BaseLocale == "en-US"

\* (x / total * 100).toFixed(1) + '%': the tenths of a percent, rounded to the
\* nearest, or NaN% when total is 0
Percentage(x, total) ==
    IF total = 0 THEN [nan |-> TRUE, tenths |-> 0]
    ELSE [nan |-> FALSE, tenths |-> (2000 * x + total) \div (2 * total)]

\* a count that takes every base path for missing
MissingPathsAll(json, js, locale, basePaths) == basePaths

\* the base paths the locale does not have: lines 318-323 and 382-387
MissingPaths(json, js, locale, basePaths) ==
    SelectSeq(basePaths, LAMBDA p : ~has(json, js, locale, p))

\* the entry of one locale: lines 325-331 and 389-395
LocaleReport(basePaths, missing) ==
    [total |-> Len(basePaths),
     complete |-> Len(basePaths) - Len(missing),
     missing |-> Len(missing),
     percentage |-> Percentage(Len(basePaths) - Len(missing), Len(basePaths)),
     missingPaths |-> missing]

RECURSIVE StatsFrom(_, _, _, _, _, _)

\* the loop of getStats, from this.locales[i] on
StatsFrom(json, js, known, basePaths, i, stats) ==
    IF i > Len(known) THEN stats
    ELSE IF known[i] = BaseLocale
    THEN StatsFrom(json, js, known, basePaths, i + 1, stats)
    ELSE Bind(MissingPaths(json, js, known[i], basePaths), LAMBDA missing :
              StatsFrom(json, js, known, basePaths, i + 1,
                        Assign(stats, known[i], LocaleReport(basePaths, missing))))

\* getStats(): null, or the object of the entries
getStats(json, js, known) ==
    Bind(loadLocale(json, js, BaseLocale), LAMBDA base :
         IF ~base.ok \/ Falsy(base.node) THEN Null
         ELSE StatsFrom(json, js, known, getAllPaths(base.node), 1, EmptyObj))

\* what the loop of checkTranslations has gathered
Gathered ==
    [locales |-> EmptyObj, missingByLocale |-> EmptyObj, total |-> 0, totalMissing |-> 0]

\* one locale that loads: lines 382-428
CheckOne(acc, locale, basePaths, missing) ==
    [locales |-> Assign(acc.locales, locale, LocaleReport(basePaths, missing)),
     missingByLocale |-> IF Len(missing) > 0
                         THEN Assign(acc.missingByLocale, locale, missing)
                         ELSE acc.missingByLocale,
     total |-> acc.total + 1,
     totalMissing |-> acc.totalMissing + Len(missing)]

RECURSIVE CheckFrom(_, _, _, _, _, _)

\* the loop of checkTranslations, from this.locales[i] on
CheckFrom(json, js, known, basePaths, i, acc) ==
    IF i > Len(known) THEN acc
    ELSE IF known[i] = BaseLocale
    THEN CheckFrom(json, js, known, basePaths, i + 1, acc)
    ELSE Bind(loadLocale(json, js, known[i]), LAMBDA content :
         IF ~content.ok \/ Falsy(content.node)
         THEN CheckFrom(json, js, known, basePaths, i + 1, acc)
         ELSE Bind(MissingPaths(json, js, known[i], basePaths), LAMBDA missing :
                   CheckFrom(json, js, known, basePaths, i + 1,
                             CheckOne(acc, known[i], basePaths, missing))))

RECURSIVE Flat(_, _), CountSections(_, _, _)

\* Object.values(missingByLocale).flat()
Flat(kv, i) == IF i > Len(kv) THEN <<>> ELSE kv[i].v \o Flat(kv, i + 1)

\* sectionCounts: for each first segment, the number of missing keys under it
CountSections(keys, i, counts) ==
    IF i > Len(keys) THEN counts
    ELSE CountSections(keys, i + 1,
             Assign(counts, Head(keys[i]),
                    IF HasOwn(counts, Head(keys[i]))
                    THEN counts.kv[OwnIndex(counts, Head(keys[i]))].v + 1
                    ELSE 1))

\* const prioritySections = ['homepage.seo', 'homepage.cta', 'footer.tools',
\* 'creditsPage']
PrioritySections ==
    <<<<"homepage", "seo">>, <<"homepage", "cta">>, <<"footer", "tools">>,
      <<"creditsPage">>>>

\* key.startsWith(section), for keys none of whose segments only begins with a
\* segment of a priority section
StartsWith(key, section) ==
    Len(key) >= Len(section) /\ SubSeq(key, 1, Len(section)) = section

\* the locales of missingByLocale a section is missing in
AffectedLocales(missingByLocale, section) ==
    LET hit == SelectSeq(missingByLocale.kv,
                   LAMBDA e : \E j \in 1..Len(e.v) : StartsWith(e.v[j], section))
    IN [j \in 1..Len(hit) |-> hit[j].k]

RECURSIVE Suggestions(_, _)

\* lines 466-476: `${section} missing in: ${affectedLocales.join(', ')}`
Suggestions(missingByLocale, i) ==
    IF i > Len(PrioritySections) THEN <<>>
    ELSE (IF AffectedLocales(missingByLocale, PrioritySections[i]) # <<>>
          THEN <<[section |-> PrioritySections[i],
                  missingIn |-> AffectedLocales(missingByLocale, PrioritySections[i])]>>
          ELSE <<>>)
         \o Suggestions(missingByLocale, i + 1)

\* the results object, from what the loop gathered: lines 356-367 and 431-476
CheckResults(basePaths, acc) ==
    [totalKeys |-> Len(basePaths),
     locales |-> acc.locales,
     summary |-> [total |-> acc.total,
                  complete |-> acc.total - Len(acc.missingByLocale.kv),
                  incomplete |-> Len(acc.missingByLocale.kv),
                  totalMissing |-> acc.totalMissing],
     sectionsAnalysis |-> IF acc.totalMissing > 0
                          THEN CountSections(Flat(acc.missingByLocale.kv, 1), 1, EmptyObj)
                          ELSE EmptyObj,
     suggestions |-> IF acc.totalMissing > 0
                     THEN Suggestions(acc.missingByLocale, 1)
                     ELSE <<>>]

\* checkTranslations(detailed): null, or the results; `detailed` only adds
\* lines to the console
checkTranslations(json, js, known, detailed) ==
    Bind(loadLocale(json, js, BaseLocale), LAMBDA base :
         IF ~base.ok \/ Falsy(base.node) THEN Null
         ELSE Bind(getAllPaths(base.node), LAMBDA basePaths :
                   CheckResults(basePaths,
                                CheckFrom(json, js, known, basePaths, 1, Gathered))))

\* -------------------------------------------------------------- duplicates
\* String(value), the property name values[value] uses: the text of a scalar,
\* "[object Object]" for an object, the text of its element for an array of
\* one element (arrays of more elements are not among the documents)
ToKey(value) ==
    CASE value.t \in {"str", "num", "bool"} -> value.s
      [] value.t = "obj" -> "[object Object]"
      [] value.t = "arr" ->
            IF Len(value.kv) = 1 /\ value.kv[1].v.t \in {"str", "num", "bool"}
            THEN value.kv[1].v.s ELSE ""
      [] OTHER -> "function"

\* what the inner loop of findDuplicates has gathered for one path; threw is
\* the TypeError of values[value].push when values[value] is inherited
NoValues == [values |-> EmptyObj, threw |-> FALSE]

RECURSIVE ValuesFrom(_, _, _, _, _, _)

\* lines 506-514, from this.locales[i] on
ValuesFrom(json, js, known, path, i, acc) ==
    IF i > Len(known) \/ acc.threw THEN acc
    ELSE Bind(get(json, js, known[i], path), LAMBDA value :
         IF Falsy(value) THEN ValuesFrom(json, js, known, path, i + 1, acc)
         ELSE IF ~HasOwn(acc.values, ToKey(value)) /\ ToKey(value) \in InheritedKeys
         THEN [acc EXCEPT !.threw = TRUE]
         ELSE ValuesFrom(json, js, known, path, i + 1,
                  [acc EXCEPT !.values =
                      Assign(acc.values, ToKey(value),
                             IF HasOwn(acc.values, ToKey(value))
                             THEN Append(Lookup(acc.values, ToKey(value)), known[i])
                             ELSE <<known[i]>>)]))

RECURSIVE SharedFrom(_, _, _, _)

\* lines 517-521: each value more than one locale holds is assigned to
\* duplicates[path], a later one over an earlier one
SharedFrom(values, path, i, duplicates) ==
    IF i > Len(values.kv) THEN duplicates
    ELSE SharedFrom(values, path, i + 1,
             IF Len(values.kv[i].v) > 1
             THEN Assign(duplicates, path,
                         [value |-> values.kv[i].k, locales |-> values.kv[i].v])
             ELSE duplicates)

RECURSIVE DuplicatesFrom(_, _, _, _, _, _)

\* the loop over basePaths, lines 503-522
DuplicatesFrom(json, js, known, basePaths, i, duplicates) ==
    IF i > Len(basePaths) THEN [threw |-> FALSE, duplicates |-> duplicates]
    ELSE Bind(ValuesFrom(json, js, known, basePaths[i], 1, NoValues), LAMBDA found :
         IF found.threw THEN [threw |-> TRUE, duplicates |-> duplicates]
         ELSE DuplicatesFrom(json, js, known, basePaths, i + 1,
                  SharedFrom(found.values, basePaths[i], 1, duplicates)))

\* findDuplicates(): [threw, ret]; ret is null or the duplicates object
findDuplicates(json, js, known) ==
    Bind(loadLocale(json, js, BaseLocale), LAMBDA base :
         IF ~base.ok \/ Falsy(base.node) THEN [threw |-> FALSE, ret |-> Null]
         ELSE Bind(DuplicatesFrom(json, js, known, getAllPaths(base.node), 1, EmptyObj),
                   LAMBDA r : [threw |-> r.threw,
                               ret |-> IF r.threw THEN Undefined ELSE r.duplicates]))

\* the counting of bin/cli.js `setMultiple`: an entry that is not truthy is
\* printed as Failed and counted in failCount
CliFailed(results) == {i \in 1..Len(results.kv) : Falsy(results.kv[i].v)}

\* process.exit(1) when failCount > 0
CliExitCode(results) == IF CliFailed(results) # {} THEN 1 ELSE 0

\* ------------------------------------------------------------------ inputs
Segs == {"a", "constructor"}

RECURSIVE SeqsUpTo(_, _)

SeqsUpTo(S, n) ==
    IF n = 0 THEN {<<>>}
    ELSE LET shorter == SeqsUpTo(S, n - 1) IN
         shorter \cup {Append(p, x) : p \in shorter, x \in S}

\* the paths the calls are made with
Paths == SeqsUpTo(Segs, MaxDepth) \ {<<>>}

SetValues == {Str("v1"), Str("v2")}

\* ----------------------------------------------------------- initial files
DocEmpty == EmptyObj
DocFlat == Obj(<<Entry("a", Str("s")), Entry("b", Str("t"))>>)
DocNested == Obj(<<Entry("a", Obj(<<Entry("a", Str("s"))>>)), Entry("b", Str("t"))>>)
DocArray == Obj(<<Entry("a", ArrOf(<<Str("s")>>))>>)
DocNullLeaf == Obj(<<Entry("a", Null)>>)

InitDocs == {DocEmpty, DocFlat, DocNested, DocArray, DocNullLeaf}

\* '{ invalid json }'
MalformedJson == <<P("{"), Tok("ident", "invalid"), Tok("ident", "json"), P("}")>>

\* module.exports = {"a": "js"};
JsJsonLiteral ==
    <<Tok("export", "module.exports")>> \o Stringify(Obj(<<Entry("a", Str("js"))>>))
    \o <<P(";")>>

\* export default { a: "js" }
JsPlainLiteral ==
    <<Tok("export", "export default"), P("{"), Tok("ident", "a"), P(":"),
      Tok("str", "js"), P("}")>>

\* the <locale>.json / <locale>.js pairs a locales directory starts with
DiskStates ==
    {[json |-> NoFile, js |-> NoFile],
     [json |-> File(MalformedJson), js |-> NoFile],
     [json |-> NoFile, js |-> File(JsJsonLiteral)],
     [json |-> NoFile, js |-> File(JsPlainLiteral)],
     [json |-> File(Stringify(DocFlat)), js |-> File(JsJsonLiteral)]}
    \cup {[json |-> File(Stringify(d)), js |-> NoFile] : d \in InitDocs}

\* --------------------------------------------------------------- the calls
NoCall ==
    [op |-> "none", locale |-> "", path |-> <<>>, value |-> Undefined,
     skip |-> FALSE, out |-> "", ret |-> Undefined, outs |-> EmptyObj,
     src |-> Undefined, pre |-> <<>>]

\* no set() is between its load and its save
NoPending ==
    [active |-> FALSE, locale |-> "", path |-> <<>>, value |-> Undefined,
     skip |-> FALSE, content |-> [ok |-> FALSE, node |-> Null]]

\* the record of a call: its arguments, the branch it took (out; outs for each
\* locale of a batch), what it returned (ret), the source value a copy read
\* (src) and the .json files it found (pre; no call writes a .js file)
Call(op, locale, path, value, skip, out, ret, outs, src) ==
    [op |-> op, locale |-> locale, path |-> path, value |-> value,
     skip |-> skip, out |-> out, ret |-> ret, outs |-> outs,
     src |-> src, pre |-> jsonFile]

Init ==
    /\ \E disk \in [Locales -> DiskStates] :
          /\ jsonFile = [l \in Locales |-> disk[l].json]
          /\ jsFile = [l \in Locales |-> disk[l].js]
    /\ locales = scanLocales(jsonFile, jsFile)
    /\ heapDirty = FALSE
    /\ last = NoCall
    /\ calls = 0
    /\ pending = NoPending

\* helper.set(locale, path, value, skipIfExists)
Set(locale, path, value, skipIfExists) ==
    /\ calls < MaxCalls
    /\ \E hint \in Hints(path, skipIfExists, heapDirty) :
          \E r \in {set(jsonFile, jsFile, locale, path, value, skipIfExists, hint)} :
          /\ jsonFile' = SetFiles(jsonFile, locale, r)
          /\ heapDirty' = (heapDirty \/ r.heap)
          /\ last' = Call("set", locale, path, value, skipIfExists, r.out,
                          SetReturn(r.out), EmptyObj, Undefined)
    /\ calls' = calls + 1
    /\ UNCHANGED <<jsFile, locales, pending>>

\* helper.get(locale, path)
Get(locale, path) ==
    /\ calls < MaxCalls
    /\ last' = Call("get", locale, path, Undefined, FALSE, "returned",
                    get(jsonFile, jsFile, locale, path), EmptyObj, Undefined)
    /\ calls' = calls + 1
    /\ UNCHANGED <<jsonFile, jsFile, locales, heapDirty, pending>>

\* helper.has(locale, path)
Has(locale, path) ==
    /\ calls < MaxCalls
    /\ last' = Call("has", locale, path, Undefined, FALSE, "returned",
                    Bool(has(jsonFile, jsFile, locale, path)), EmptyObj, Undefined)
    /\ calls' = calls + 1
    /\ UNCHANGED <<jsonFile, jsFile, locales, heapDirty, pending>>

\* helper.loadLocale(locale)
LoadLocale(locale) ==
    /\ calls < MaxCalls
    /\ \E content \in {loadLocale(jsonFile, jsFile, locale)} :
       last' = Call("loadLocale", locale, <<>>, Undefined, FALSE,
                    IF content.ok THEN "loaded" ELSE "null", content.node,
                    EmptyObj, Undefined)
    /\ calls' = calls + 1
    /\ UNCHANGED <<jsonFile, jsFile, locales, heapDirty, pending>>

\* helper.saveLocale(locale, content)
SaveLocale(locale, content) ==
    /\ calls < MaxCalls
    /\ jsonFile' = saveLocale(jsonFile, locale, content)
    /\ last' = Call("saveLocale", locale, <<>>, content, FALSE, "saved",
                    Undefined, EmptyObj, Undefined)
    /\ calls' = calls + 1
    /\ UNCHANGED <<jsFile, locales, heapDirty, pending>>

\* helper.setMultiple(translations, path, skipIfExists)
SetMultiple(translations, path, skipIfExists) ==
    /\ calls < MaxCalls
    /\ \E hint \in Hints(path, skipIfExists, heapDirty \/ Len(translations.kv) > 1) :
          \E r \in {setMultiple(jsonFile, jsFile, locales, translations, path,
                               skipIfExists, heapDirty, hint)} :
             /\ jsonFile' = r.json
             /\ heapDirty' = (heapDirty \/ r.heap)
             /\ last' = Call("setMultiple", "", path, translations, skipIfExists,
                             IF r.threw THEN "threw" ELSE "returned",
                             IF r.threw THEN Undefined ELSE r.results,
                             r.outs, Undefined)
    /\ calls' = calls + 1
    /\ UNCHANGED <<jsFile, locales, pending>>

\* helper.copy(sourceLocale, path, targetLocales)
Copy(sourceLocale, path, targetLocales) ==
    /\ calls < MaxCalls
    /\ \E sourceValue \in {get(jsonFile, jsFile, sourceLocale, path)} :
       IF sourceValue = Null
       THEN /\ last' = Call("copy", sourceLocale, path, ArrOf(<<>>), FALSE,
                            "nosource", Bool(FALSE), EmptyObj, sourceValue)
            /\ UNCHANGED <<jsonFile, heapDirty>>
       ELSE \E hint \in Hints(path, FALSE, heapDirty \/ Len(copyTargets(locales, sourceLocale, targetLocales)) > 1) :
               \E r \in {copy(jsonFile, jsFile, locales, sourceLocale, path,
                               targetLocales, heapDirty, hint)},
                  targets \in {copyTargets(locales, sourceLocale, targetLocales)} :
                  /\ jsonFile' = r.json
                  /\ heapDirty' = (heapDirty \/ r.heap)
                  /\ last' = Call("copy", sourceLocale, path,
                                  ArrOf([i \in 1..Len(targets) |-> Str(targets[i])]),
                                  FALSE,
                                  IF r.threw THEN "threw" ELSE "returned",
                                  IF r.threw THEN Undefined ELSE r.results,
                                  r.outs, sourceValue)
    /\ calls' = calls + 1
    /\ UNCHANGED <<jsFile, locales, pending>>

\* helper._getAllPaths(obj); the paths are recorded as an array of arrays of
\* segments
GetAllPaths(obj) ==
    /\ calls < MaxCalls
    /\ \E paths \in {getAllPaths(obj)} :
       last' = Call("_getAllPaths", "", <<>>, obj, FALSE, "returned",
                    [t |-> "paths", s |-> "", kv |-> paths], EmptyObj, Undefined)
    /\ calls' = calls + 1
    /\ UNCHANGED <<jsonFile, jsFile, locales, heapDirty, pending>>

\* the value each locale is given in a setMultiple call
ValueFor(l) == IF l = LocaleOrder[1] THEN Str("v1") ELSE Str("v2")

LocaleLists ==
    {<<l>> : l \in Locales} \cup {p \in Locales \X Locales : p[1] # p[2]}

TranslationSets ==
    {Obj([i \in 1..Len(ls) |-> Entry(ls[i], ValueFor(ls[i]))]) : ls \in LocaleLists}

\* the explicit target lists of copy; <<>> is the default
TargetLists == {<<>>} \cup {<<l>> : l \in Locales}

\* single-locale calls
Next ==
    \/ \E l \in Locales, p \in Paths, v \in SetValues, skip \in BOOLEAN : Set(l, p, v, skip)
    \/ \E l \in Locales, p \in Paths : Get(l, p)
    \/ \E l \in Locales, p \in Paths : Has(l, p)
    \/ \E l \in Locales : LoadLocale(l)

Spec == Init /\ [][Next]_vars

\* calls over several locales
NextBatch ==
    \/ \E tr \in TranslationSets, p \in Paths, skip \in BOOLEAN : SetMultiple(tr, p, skip)
    \/ \E l \in Locales, p \in Paths, ts \in TargetLists : Copy(l, p, ts)

SpecBatch == Init /\ [][NextBatch]_vars

\* entry lists with distinct keys from `keys`, at most two entries
EntryLists(keys, values) ==
    {<<>>}
    \cup {<<Entry(k, v)>> : k \in keys, v \in values}
    \cup {<<Entry(ks[1], v1), Entry(ks[2], v2)>> :
            ks \in {p \in keys \X keys : p[1] # p[2]}, v1 \in values, v2 \in values}

ObjectsOver(keys, values) == {Obj(kv) : kv \in EntryLists(keys, values)}

\* the documents saveLocale is given: containers with string, number and
\* boolean leaves
SaveLeaves == {Str("s"), Num("1"), Num("NaN"), Bool(TRUE)}

SaveDocs ==
    ObjectsOver({"a", "b"},
                SaveLeaves \cup {Obj(<<Entry("b", Str("s")), Entry("a", Num("1"))>>),
                                 Obj(<<Entry("b", Num("Infinity"))>>)})

NextSave ==
    \/ \E l \in Locales, d \in SaveDocs : SaveLocale(l, d)
    \/ \E l \in Locales : LoadLocale(l)

\* a directory holding no .json file yet
InitSave ==
    /\ jsonFile = [l \in Locales |-> NoFile]
    /\ jsFile \in [Locales -> {NoFile, File(JsJsonLiteral)}]
    /\ locales = scanLocales(jsonFile, jsFile)
    /\ heapDirty = FALSE
    /\ last = NoCall
    /\ calls = 0
    /\ pending = NoPending

SpecSave == InitSave /\ [][NextSave]_vars

\* {"a":{"b":1,"c":2},"d":3}
ExampleDoc ==
    Obj(<<Entry("a", Obj(<<Entry("b", Num("1")), Entry("c", Num("2"))>>)),
          Entry("d", Num("3"))>>)

PathLeaves ==
    {Num("1"), Null, Str(""), ArrOf(<<Obj(<<Entry("b", Num("1"))>>)>>)}

\* the documents _getAllPaths is given
PathDocs ==
    {ExampleDoc}
    \cup ObjectsOver({"a", "d"},
                    PathLeaves \cup ObjectsOver({"b", "c"}, {Num("1"), Null}))

\* an empty locales directory
InitEmpty ==
    /\ jsonFile = [l \in Locales |-> NoFile]
    /\ jsFile = [l \in Locales |-> NoFile]
    /\ locales = scanLocales(jsonFile, jsFile)
    /\ heapDirty = FALSE
    /\ last = NoCall
    /\ calls = 0
    /\ pending = NoPending

NextPaths == \E d \in PathDocs : GetAllPaths(d)

SpecPaths == InitEmpty /\ [][NextPaths]_vars

\* ------------------------------------------------- the checks over all locales
\* helper.getStats()
GetStats ==
    /\ calls < MaxCalls
    /\ \E r \in {getStats(jsonFile, jsFile, locales)} :
       last' = Call("getStats", "", <<>>, Undefined, FALSE, "returned", r,
                    EmptyObj, Undefined)
    /\ calls' = calls + 1
    /\ UNCHANGED <<jsonFile, jsFile, locales, heapDirty, pending>>

\* a check that leaves an empty en-US.json behind when it finds no base document
CheckTranslationsCreating(detailed) ==
    /\ calls < MaxCalls
    /\ \E r \in {checkTranslations(jsonFile, jsFile, locales, detailed)} :
          /\ last' = Call("checkTranslations", "", <<>>, Bool(detailed), FALSE,
                          "returned", r, EmptyObj, Undefined)
          /\ jsonFile' = IF r = Null THEN saveLocale(jsonFile, BaseLocale, EmptyObj)
                         ELSE jsonFile
    /\ calls' = calls + 1
    /\ UNCHANGED <<jsFile, locales, heapDirty, pending>>

\* helper.checkTranslations(detailed)
CheckTranslations(detailed) ==
    /\ calls < MaxCalls
    /\ \E r \in {checkTranslations(jsonFile, jsFile, locales, detailed)} :
       last' = Call("checkTranslations", "", <<>>, Bool(detailed), FALSE,
                    "returned", r, EmptyObj, Undefined)
    /\ calls' = calls + 1
    /\ UNCHANGED <<jsonFile, jsFile, locales, heapDirty, pending>>

\* helper.findDuplicates()
FindDuplicates ==
    /\ calls < MaxCalls
    /\ \E r \in {findDuplicates(jsonFile, jsFile, locales)} :
       last' = Call("findDuplicates", "", <<>>, Undefined, FALSE,
                    IF r.threw THEN "threw" ELSE "returned", r.ret,
                    EmptyObj, Undefined)
    /\ calls' = calls + 1
    /\ UNCHANGED <<jsonFile, jsFile, locales, heapDirty, pending>>

\* the base document of the completeness scenario
ScenarioBase ==
    Obj(<<Entry("common", Obj(<<Entry("loading", Str("Loading...")),
                               Entry("error", Str("An error occurred"))>>)),
          Entry("navigation", Obj(<<Entry("home", Str("Home")),
                                   Entry("about", Str("About"))>>))>>)

\* its second locale; the strings stand for the translated ones
ScenarioSecond ==
    Obj(<<Entry("common", Obj(<<Entry("loading", Str("Jiazaizhong..."))>>)),
          Entry("navigation", Obj(<<Entry("home", Str("Shouye"))>>))>>)

\* a locale complete but for one key, with one string left as the base has it
DocLaden ==
    Obj(<<Entry("common", Obj(<<Entry("loading", Str("Laden...")),
                               Entry("error", Str("Fehler"))>>)),
          Entry("navigation", Obj(<<Entry("about", Str("About"))>>))>>)

\* a base document with a priority section, an array leaf and a null leaf
DocCredits ==
    Obj(<<Entry("creditsPage", Obj(<<Entry("title", Str("Credits"))>>)),
          Entry("common", Obj(<<Entry("loading", ArrOf(<<Str("Loading...")>>)),
                               Entry("error", Null)>>))>>)

\* the locales of a directory the checks run over
CheckLocales == {SortedNames[i] : i \in 1..Len(SortedNames)}

BaseFiles == {NoFile, File(Stringify(ScenarioBase)), File(Stringify(DocCredits))}

OtherFiles ==
    {NoFile, File(MalformedJson), File(Stringify(ScenarioSecond)),
     File(Stringify(ScenarioBase)), File(Stringify(DocLaden))}

InitCheck ==
    /\ jsonFile \in {f \in [CheckLocales -> BaseFiles \cup OtherFiles] :
                        f[BaseLocale] \in BaseFiles
                        /\ \A l \in CheckLocales \ {BaseLocale} : f[l] \in OtherFiles}
    /\ jsFile = [l \in CheckLocales |-> NoFile]
    /\ locales = scanLocales(jsonFile, jsFile)
    /\ heapDirty = FALSE
    /\ last = NoCall
    /\ calls = 0
    /\ pending = NoPending

NextCheck ==
    \/ GetStats
    \/ \E detailed \in BOOLEAN : CheckTranslations(detailed)
    \/ FindDuplicates

SpecCheck == InitCheck /\ [][NextCheck]_vars

\* ------------------------------------------------------------ key extraction
\* File content is a sequence of pieces of text: the characters the patterns
\* of extractTKeys name ("$", "t", "(", ")", the quotes, "{{", "}}"), a blank,
\* a line break, and words, which hold none of those characters.
IsWs(c) == c \in {" ", "\n"}

IsQuote(c) == c \in {"'", "\""}

At(content, i, c) == i <= Len(content) /\ content[i] = c

RECURSIVE SkipWs(_, _)

\* \s* from position i: the first position it does not take
SkipWs(content, i) ==
    IF i <= Len(content) /\ IsWs(content[i]) THEN SkipWs(content, i + 1) ELSE i

\* an opening that also takes a call of t without the dollar sign
CallOpenBare(content, i) ==
    LET t == IF At(content, i, "$") THEN i + 1 ELSE i
        b == SkipWs(content, t + 1)
        c == SkipWs(content, b + 1)
    IN IF /\ At(content, t, "t")
          /\ At(content, b, "(")
          /\ c <= Len(content) /\ IsQuote(content[c])
       THEN c + 1 ELSE 0

\* \$t\s*\(\s*['"] at position i: the position after the quote, 0 for no match
CallOpen(content, i) ==
    LET b == SkipWs(content, i + 2)
        c == SkipWs(content, b + 1)
    IN IF /\ At(content, i, "$") /\ At(content, i + 1, "t")
          /\ At(content, b, "(")
          /\ c <= Len(content) /\ IsQuote(content[c])
       THEN c + 1 ELSE 0

\* ['"]\s*\) at position q, followed by \s*\}\} in the second pattern: the
\* position after the match, 0 for no match
CallClose(content, q, template) ==
    LET d == SkipWs(content, q + 1)
        e == SkipWs(content, d + 1)
    IN IF ~(q <= Len(content) /\ IsQuote(content[q]) /\ At(content, d, ")")) THEN 0
       ELSE IF ~template THEN d + 1
       ELSE IF At(content, e, "}}") THEN e + 1 ELSE 0

\* (.*?) from position k: the closing quotes it can stop before, none of the
\* pieces it takes being a line break
KeyEnds(content, k, template) ==
    {q \in k..Len(content) :
        /\ \A j \in k..(q - 1) : content[j] # "\n"
        /\ CallClose(content, q, template) # 0}

\* one of the two patterns tried at position i: [ok, key, next]
MatchAt(content, i, template) ==
    LET k == IF ~template THEN CallOpen(content, i)
             ELSE IF At(content, i, "{{")
                  THEN CallOpen(content, SkipWs(content, i + 1))
                  ELSE 0
    IN IF k = 0 \/ KeyEnds(content, k, template) = {}
       THEN [ok |-> FALSE, key |-> <<>>, next |-> 0]
       ELSE LET q == CHOOSE q \in KeyEnds(content, k, template) :
                        \A r \in KeyEnds(content, k, template) : q <= r
            IN [ok |-> TRUE, key |-> SubSeq(content, k, q - 1),
                next |-> CallClose(content, q, template)]

\* keys.add(match[1]) on a Set, which keeps the order of first insertion
AddKey(keys, key) ==
    IF \E i \in 1..Len(keys) : keys[i] = key THEN keys ELSE Append(keys, key)

RECURSIVE ExecFrom(_, _, _, _)

\* while ((match = pattern.exec(content)) !== null), lastIndex being `from`
ExecFrom(content, from, template, keys) ==
    LET starts == {i \in from..Len(content) : MatchAt(content, i, template).ok}
    IN IF starts = {} THEN keys
       ELSE Bind(MatchAt(content, CHOOSE i \in starts : \A j \in starts : i <= j,
                         template),
                 LAMBDA m : ExecFrom(content, m.next, template, AddKey(keys, m.key)))

\* extractTKeys(content): the keys, each a sequence of pieces
extractTKeys(content) ==
    ExecFrom(content, 1, TRUE, ExecFrom(content, 1, FALSE, <<>>))

\* the pieces of one occurrence in a file: form names how it is written, key
\* the key it holds
Occurrence(form, key) ==
    CASE form = "t('k')" -> <<"t", "(", "'", key, "'", ")">>
      [] form = "$t('k')" -> <<"$", "t", "(", "'", key, "'", ")">>
      [] form = "$t(\"k\")" -> <<"$", "t", "(", "\"", key, "\"", ")">>
      [] form = "$t ( 'k' )" -> <<"$", "t", " ", "(", " ", "'", key, "'", " ", ")">>
      [] form = "{{ t('k') }}" ->
            <<"{{", " ", "t", "(", "'", key, "'", ")", " ", "}}">>
      [] form = "{{ $t('k') }}" ->
            <<"{{", " ", "$", "t", "(", "'", key, "'", ")", " ", "}}">>
      [] form = "{{$t(\"k\")}}" ->
            <<"{{", "$", "t", "(", "\"", key, "\"", ")", "}}">>
      [] OTHER -> <<key>>

\* the forms with the dollar sign, which the documentation lists
DollarForms == {"$t('k')", "$t(\"k\")", "$t ( 'k' )", "{{ $t('k') }}", "{{$t(\"k\")}}"}

Forms == DollarForms \cup {"t('k')", "{{ t('k') }}", "k"}

Keys == {"page.title", "section.intro"}

Occurrences == [form : Forms, key : Keys]

\* the most occurrences a file of the model holds
MaxParts == 2

RECURSIVE Lines(_, _)

\* a file with one occurrence on each line
Lines(parts, i) ==
    IF i > Len(parts) THEN <<>>
    ELSE Occurrence(parts[i].form, parts[i].key) \o <<"\n">> \o Lines(parts, i + 1)

\* checker.extractTKeys(content), content holding the occurrences `parts`
ExtractTKeys(parts) ==
    /\ calls < MaxCalls
    /\ \E keys \in {extractTKeys(Lines(parts, 1))} :
       last' = Call("extractTKeys", "", <<>>, parts, FALSE, "returned", keys,
                    EmptyObj, Undefined)
    /\ calls' = calls + 1
    /\ UNCHANGED <<jsonFile, jsFile, locales, heapDirty, pending>>

NextKeys == \E parts \in SeqsUpTo(Occurrences, MaxParts) : ExtractTKeys(parts)

SpecKeys == InitEmpty /\ [][NextKeys]_vars

\* --------------------------------------------------------- hardcoded strings
\* A line of a markup file is a sequence of pieces of text: "<" and ">", the
\* names of tags ("h1", "/h1", "code", "/code", ...), a blank, the pieces of a
\* translation call, "//", and words.

\* the pieces of the model that hold a lowercase letter, an uppercase letter
Lowercase ==
    {"h1", "/h1", "span", "/span", "code", "/code", "pre", "/pre", "class=x",
     "Welcome", "Also", "flag", "me", "doNotFlag", "Contact", "sales", "t",
     "page.title", "p", "/p", "submit", "faq", "https://", "example.com/help",
     "help", "docs/About.html", "Save", "all", "your", "changes", "now", "click",
     "here", "title", "class", "button", "us", "12px", "#fff"}

Uppercase ==
    {"Welcome", "Also", "doNotFlag", "OK", "Contact", "SUBMIT", "DELETE",
     "docs/About.html", "Save"}

\* the pieces whose last character is "t"
EndsInT == {"t", "Contact", "submit"}

\* the options of checkHardcodedStrings that the scan of a line reads
minLength == 2

maxLength == 200

uiWords ==
    {"upload", "download", "submit", "cancel", "save", "delete", "edit", "create",
     "login", "logout", "register", "search", "filter", "sort", "refresh",
     "next", "previous", "back", "forward", "home", "settings", "profile",
     "help", "about", "contact", "privacy", "terms", "faq",
     "loading", "success", "failed", "complete", "processing",
     "welcome", "hello", "goodbye", "thanks", "please", "sorry"}

\* the words of uiWords that piece.toLowerCase() includes; no text of the model
\* holds one across two pieces
UiWordsIn(piece) ==
    CASE piece = "Welcome" -> {"welcome"}
      [] piece = "Contact" -> {"contact"}
      [] piece \in {"SUBMIT", "submit"} -> {"submit"}
      [] piece = "DELETE" -> {"delete"}
      [] piece = "faq" -> {"faq"}
      [] piece \in {"help", "example.com/help"} -> {"help"}
      [] piece = "docs/About.html" -> {"about"}
      [] piece = "Save" -> {"save"}
      [] OTHER -> {}

RECURSIVE Chars(_)

\* str.length
Chars(text) == IF text = <<>> THEN 0 ELSE Len(Head(text)) + Chars(Tail(text))

RECURSIVE TrimStart(_)

TrimStart(text) ==
    IF text # <<>> /\ IsWs(Head(text)) THEN TrimStart(Tail(text)) ELSE text

RECURSIVE TrimEnd(_)

TrimEnd(text) ==
    IF text # <<>> /\ IsWs(text[Len(text)])
    THEN TrimEnd(SubSeq(text, 1, Len(text) - 1)) ELSE text

\* str.trim()
Trim(text) == TrimEnd(TrimStart(text))

\* text.includes(piece)
IncludesPiece(text, piece) == \E i \in 1..Len(text) : text[i] = piece

\* pattern.test(line) for a pattern of pieces with \s* between them
TestAt(line, i, pattern) ==
    IF Len(pattern) = 1 THEN At(line, i, pattern[1])
    ELSE IF Len(pattern) = 2
         THEN At(line, i, pattern[1]) /\ At(line, SkipWs(line, i + 1), pattern[2])
         ELSE /\ At(line, i, pattern[1])
              /\ At(line, SkipWs(line, i + 1), pattern[2])
              /\ At(line, SkipWs(line, SkipWs(line, i + 1) + 1), pattern[3])

\* _isI18nLine(line)
isI18nLine(line) ==
    \E i \in 1..Len(line) :
        \/ At(line, i, "$") /\ TestAt(line, i + 1, <<"t", "(">>)
        \/ At(line, i, "{{")
           /\ At(line, SkipWs(line, i + 1), "$")
           /\ TestAt(line, SkipWs(line, i + 1) + 1, <<"t", "(">>)
        \/ TestAt(line, i, <<"useI18n", "(">>)
        \/ At(line, i, ".") /\ TestAt(line, i + 1, <<"t", "(">>)
        \/ At(line, i, "i18n.")
        \/ At(line, i, "$") /\ At(line, i + 1, "i18n.")
        \/ line[i] \in EndsInT /\ At(line, SkipWs(line, i + 1), "(")

\* _isCommentLine(line)
isCommentLine(line) ==
    LET trimmed == Trim(line)
    IN trimmed # <<>> /\ Head(trimmed) \in {"//", "/*", "*", "<!--"}

\* the places of text, counted from 0, where the pieces of `tag` stand
IndexesOf(text, tag) ==
    {i \in 0..(Len(text) - Len(tag)) : SubSeq(text, i + 1, i + Len(tag)) = tag}

Max(S) == CHOOSE x \in S : \A y \in S : y <= x

Min(S) == CHOOSE x \in S : \A y \in S : x <= y

\* text.lastIndexOf(tag)
LastIndexOf(text, tag) ==
    IF IndexesOf(text, tag) = {} THEN -1 ELSE Max(IndexesOf(text, tag))

\* text.indexOf(tag)
IndexOf(text, tag) ==
    IF IndexesOf(text, tag) = {} THEN -1 ELSE Min(IndexesOf(text, tag))

\* a test that takes no notice of an opening tag with attributes
InsideTagBare(beforeText, afterText, name) ==
    LET lastOpen == LastIndexOf(beforeText, <<"<", name, ">">>)
        lastClose == LastIndexOf(beforeText, <<"<", "/" \o name, ">">>)
        nextClose == IndexOf(afterText, <<"<", "/" \o name, ">">>)
    IN /\ lastOpen # -1 /\ lastOpen > lastClose
       /\ (nextClose # -1 \/ lastClose = -1)

\* the test of _isInsideCodeOrPreTag for one of the two tag names
InsideTag(beforeText, afterText, name) ==
    LET lastOpen == Max({LastIndexOf(beforeText, <<"<", name, ">">>),
                         LastIndexOf(beforeText, <<"<", name, " ">>)})
        lastClose == LastIndexOf(beforeText, <<"<", "/" \o name, ">">>)
        nextClose == IndexOf(afterText, <<"<", "/" \o name, ">">>)
    IN /\ lastOpen # -1 /\ lastOpen > lastClose
       /\ (nextClose # -1 \/ lastClose = -1)

\* _isInsideCodeOrPreTag(line, position)
isInsideCodeOrPreTag(line, position) ==
    LET beforeText == SubSeq(line, 1, position)
        afterText == SubSeq(line, position + 1, Len(line))
    IN \/ InsideTag(beforeText, afterText, "code")
       \/ InsideTag(beforeText, afterText, "pre")

\* the pieces of str.split(/\s+/): one more than the runs of blanks
SplitLength(text) ==
    1 + Cardinality({i \in 1..Len(text) :
                        IsWs(text[i]) /\ (i = 1 \/ ~IsWs(text[i - 1]))})

\* _isUserFacingText(str); the texts of the model are in Latin script
isUserFacingText(text) ==
    IF ~\E i \in 1..Len(text) : text[i] \in Lowercase \cup Uppercase THEN FALSE
    ELSE IF (\E i \in 1..Len(text) : IsWs(text[i])) /\ SplitLength(text) > 1
         THEN TRUE
    ELSE IF \E i \in 1..Len(text) : UiWordsIn(text[i]) \cap uiWords # {} THEN TRUE
    ELSE /\ Chars(text) > 6
         /\ \E i \in 1..Len(text) : text[i] \in Lowercase
         /\ \E i \in 1..Len(text) : text[i] \in Uppercase

\* />([^<]+)</g tried at place i of the line: the place of the "<" that ends
\* the match, 0 for no match
TagContentEnd(line, i) ==
    LET ends == {j \in (i + 1)..Len(line) : line[j] = "<"}
    IN IF At(line, i, ">") /\ ends # {} /\ Min(ends) > i + 1 THEN Min(ends) ELSE 0

\* what the body of the loop of _extractVueTemplateContent does with one match
TagContentFinding(line, lineNumber, index, textContent, findings) ==
    LET startCol == index + 1
    IN IF \/ textContent = <<>>
          \/ Chars(textContent) < minLength
          \/ Chars(textContent) > maxLength
       THEN findings
       ELSE IF \/ IncludesPiece(textContent, "{{")
               \/ IncludesPiece(textContent, "}}")
               \/ Head(textContent) = "v-"
       THEN findings
       ELSE IF isInsideCodeOrPreTag(line, startCol) THEN findings
       ELSE IF isUserFacingText(textContent)
       THEN Append(findings, [line |-> lineNumber, column |-> startCol,
                              text |-> textContent,
                              category |-> "template-content",
                              severity |-> "high"])
       ELSE findings

RECURSIVE TagContentFrom(_, _, _, _)

\* while ((match = pattern.exec(line)) !== null), lastIndex being `from`;
\* places in the line are counted from 0 as match.index is
TagContentFrom(line, lineNumber, from, findings) ==
    LET starts == {i \in from..Len(line) : TagContentEnd(line, i) # 0}
    IN IF starts = {} THEN findings
       ELSE LET i == Min(starts)
                j == TagContentEnd(line, i)
            IN TagContentFrom(line, lineNumber, j + 1,
                   TagContentFinding(line, lineNumber, i - 1,
                                     Trim(SubSeq(line, i + 1, j - 1)), findings))

\* _extractVueTemplateContent(line, lineNumber, filePath, options)
extractVueTemplateContent(line, lineNumber) ==
    TagContentFrom(line, lineNumber, 1, <<>>)

\* _extractStringsFromLine(line, lineNumber, filePath, options) for a file
\* whose name ends in .vue, includeComments being false
extractStringsFromLine(line, lineNumber) ==
    IF isI18nLine(line) THEN <<>>
    ELSE IF isCommentLine(line) THEN <<>>
    ELSE extractVueTemplateContent(line, lineNumber)

RECURSIVE scanFile(_, _, _)

\* _scanFile: the findings of the lines from lineNumber on, a line with
\* nothing but blanks being passed over
scanFile(lines, lineNumber, findings) ==
    IF lineNumber > Len(lines) THEN findings
    ELSE IF Trim(lines[lineNumber]) = <<>>
         THEN scanFile(lines, lineNumber + 1, findings)
    ELSE scanFile(lines, lineNumber + 1,
                  findings \o extractStringsFromLine(lines[lineNumber], lineNumber))

\* checkHardcodedStrings(projectDir, options) over a directory that holds one
\* .vue file: the findings of one file are in the order of its lines already
checkHardcodedStrings(lines) == scanFile(lines, 1, <<>>)

\* the texts between tags
Welcome == <<"Welcome">>

AlsoFlagMe == <<"Also", " ", "flag", " ", "me">>

DoNotFlag == <<"doNotFlag">>

ContactSales == <<"Contact", " ", "(", "sales", ")">>

Translated == Occurrence("{{ $t('k') }}", "page.title")

\* <name>text</name>
Element(name, text) ==
    <<"<", name, ">">> \o text \o <<"<", "/" \o name, ">">>

\* the pieces of one part of a line
Part(part) ==
    CASE part = "h1 Welcome" -> Element("h1", Welcome)
      [] part = "code doNotFlag" -> Element("code", DoNotFlag)
      [] part = "span Also flag me" -> Element("span", AlsoFlagMe)
      [] part = "pre doNotFlag" -> Element("pre", DoNotFlag)
      [] part = "code class Also flag me" ->
            <<"<", "code", " ", "class=x", ">">> \o AlsoFlagMe \o <<"<", "/code", ">">>
      [] part = "span translated" -> Element("span", Translated)
      [] part = "h1 Contact (sales)" -> Element("h1", ContactSales)
      [] part = "h1 OK" -> Element("h1", <<"OK">>)
      [] part = "code open" -> <<"<", "code", ">">>
      [] part = "//" -> <<"//", " ">>
      [] OTHER -> <<" ">>

LineParts ==
    {"h1 Welcome", "code doNotFlag", "span Also flag me", "pre doNotFlag",
     "code class Also flag me", "span translated", "h1 Contact (sales)",
     "h1 OK", "code open", "//"}

\* the most parts a line of the model holds
MaxLineParts == 3

RECURSIVE LineOf(_, _)

\* the line that the parts make
LineOf(parts, i) ==
    IF i > Len(parts) THEN <<>> ELSE Part(parts[i]) \o LineOf(parts, i + 1)

\* helper.checkHardcodedStrings(dir, { extensions: ['.vue'] }), the directory
\* holding one file of one line
CheckHardcodedStrings(parts) ==
    /\ calls < MaxCalls
    /\ \E findings \in {checkHardcodedStrings(<<LineOf(parts, 1)>>)} :
       last' = Call("checkHardcodedStrings", "", <<>>, parts, FALSE, "returned",
                    findings, EmptyObj, Undefined)
    /\ calls' = calls + 1
    /\ UNCHANGED <<jsonFile, jsFile, locales, heapDirty, pending>>

NextScan == \E parts \in SeqsUpTo(LineParts, MaxLineParts) : CheckHardcodedStrings(parts)

SpecScan == InitEmpty /\ [][NextScan]_vars

\* ------------------------------------------------------- the commands of the CLI
\* the methods of class I18nHelper, which is what bin/cli.js constructs
I18nHelperMethods ==
    {"scanLocales", "getLocales", "getLocalesDir", "loadLocale", "saveLocale",
     "get", "set", "setMultiple", "getAll", "has", "getMissing", "copy", "merge",
     "batchUpdate", "getStats", "checkTranslations", "findDuplicates",
     "checkHardcodedStrings"}

\* helper.method(...): a name the class does not define is undefined, and the
\* call of it throws a TypeError, which the catch of main turns into exit 1
NotAFunction(method) == method \notin I18nHelperMethods

\* case 'check': the exit code of the process
cliCheck(json, js, known, detailed) ==
    IF Len(known) = 0 THEN 1
    ELSE IF NotAFunction("detectBaseLocale") THEN 1
    ELSE IF ~Includes(known, BaseLocale) THEN 1
    ELSE 0

\* case 'hardcode-check': the findings are printed and the case ends with break
cliHardcodeCheck(findings) == 0

\* case 'missing-translations': the exit code of the process; missingKeys is
\* an array of key names, which is greater than 0 only as one numeric string
cliMissingTranslations(missingKeys) ==
    IF NotAFunction("checkMissingTranslations") THEN 1
    ELSE 0

\* hasTranslationKey(translations, key) for the keys of the model
KeySegments(key) ==
    CASE key = <<"page.title">> -> <<"page", "title">>
      [] key = <<"section.intro">> -> <<"section", "intro">>
      [] OTHER -> key

\* the keys a file uses that the base locale has no text for
MissingKeys(json, js, content) ==
    SelectSeq(extractTKeys(content),
              LAMBDA key : Bind(get(json, js, BaseLocale, KeySegments(key)),
                                LAMBDA v : v \in {Null, Undefined, Str("")}))

\* vibei18n check [--detailed]
CliCheck(detailed) ==
    /\ calls < MaxCalls
    /\ \E code \in {cliCheck(jsonFile, jsFile, locales, detailed)} :
       last' = Call("cli check", "", <<>>, Bool(detailed), FALSE, "exit", code,
                    EmptyObj, Undefined)
    /\ calls' = calls + 1
    /\ UNCHANGED <<jsonFile, jsFile, locales, heapDirty, pending>>

\* vibei18n hardcode-check dir --ext vue, dir holding one file of one line
CliHardcodeCheck(parts) ==
    /\ calls < MaxCalls
    /\ \E findings \in {checkHardcodedStrings(<<LineOf(parts, 1)>>)} :
       last' = Call("cli hardcode-check", "", <<>>, parts, FALSE, "exit",
                    cliHardcodeCheck(findings), EmptyObj, findings)
    /\ calls' = calls + 1
    /\ UNCHANGED <<jsonFile, jsFile, locales, heapDirty, pending>>

\* vibei18n missing-translations dir, dir holding one file
CliMissingTranslations(parts) ==
    /\ calls < MaxCalls
    /\ \E missingKeys \in {MissingKeys(jsonFile, jsFile, Lines(parts, 1))} :
       last' = Call("cli missing-translations", "", <<>>, parts, FALSE, "exit",
                    cliMissingTranslations(missingKeys), EmptyObj, missingKeys)
    /\ calls' = calls + 1
    /\ UNCHANGED <<jsonFile, jsFile, locales, heapDirty, pending>>

\* a base locale with a text for page.title
DocPage == Obj(<<Entry("page", Obj(<<Entry("title", Str("Title"))>>))>>)

InitCli ==
    /\ jsonFile \in
          {f \in [CheckLocales -> {NoFile, File(Stringify(ScenarioBase)),
                                   File(Stringify(ScenarioSecond)),
                                   File(Stringify(DocPage))}] :
              /\ f["de-DE"] = NoFile /\ f["fr-FR"] = NoFile
              /\ f[BaseLocale] # File(Stringify(ScenarioSecond))}
    /\ jsFile = [l \in CheckLocales |-> NoFile]
    /\ locales = scanLocales(jsonFile, jsFile)
    /\ heapDirty = FALSE
    /\ last = NoCall
    /\ calls = 0
    /\ pending = NoPending

NextCli ==
    \/ \E detailed \in BOOLEAN : CliCheck(detailed)
    \/ \E parts \in SeqsUpTo(LineParts, 1) : CliHardcodeCheck(parts)
    \/ \E parts \in SeqsUpTo(Occurrences, 1) : CliMissingTranslations(parts)

SpecCli == InitCli /\ [][NextCli]_vars

\* ------------------------------------------------- documents with falsy leaves
\* the leaves that are falsy in JavaScript, and one that is not
LeafValues == {Str(""), Num("0"), Bool(FALSE), Null, Str("s")}

\* { a: v } and { a: { a: v } }
LeafDocs ==
    {Obj(<<Entry("a", v)>>) : v \in LeafValues}
    \cup {Obj(<<Entry("a", Obj(<<Entry("a", v)>>))>>) : v \in LeafValues}

InitLeaves ==
    /\ jsonFile \in [Locales -> {NoFile, File(MalformedJson)}
                                \cup {File(Stringify(d)) : d \in LeafDocs}]
    /\ jsFile = [l \in Locales |-> NoFile]
    /\ locales = scanLocales(jsonFile, jsFile)
    /\ heapDirty = FALSE
    /\ last = NoCall
    /\ calls = 0
    /\ pending = NoPending

NextLeaves ==
    \/ \E l \in Locales, p \in Paths : Get(l, p)
    \/ \E l \in Locales, p \in Paths : Has(l, p)

SpecLeaves == InitLeaves /\ [][NextLeaves]_vars

\* ------------------------------------------------------ edits from outside
\* documents another program writes: a sibling of the paths the calls use
DocEdited == Obj(<<Entry("a", Str("s")), Entry("b", Str("edited"))>>)

DocEditedNested ==
    Obj(<<Entry("b", Str("edited")), Entry("a", Obj(<<Entry("b", Str("edited"))>>))>>)

EditedDocs == {DocEdited, DocEditedNested}

\* another program writes <locale>.json; the helper reads the file anew in
\* every loadLocale and so meets what was written
ExternalEdit(locale, content) ==
    /\ calls < MaxCalls
    /\ jsonFile' = [jsonFile EXCEPT ![locale] = File(Stringify(content))]
    /\ last' = Call("edit", locale, <<>>, content, FALSE, "written", Undefined,
                    EmptyObj, Undefined)
    /\ calls' = calls + 1
    /\ UNCHANGED <<jsFile, locales, heapDirty, pending>>

NextFrame ==
    \/ \E l \in Locales, p \in Paths, v \in SetValues, skip \in BOOLEAN : Set(l, p, v, skip)
    \/ \E l \in Locales, d \in EditedDocs : ExternalEdit(l, d)

\* a directory with a .json file, or none, for each locale
InitFrame ==
    /\ jsonFile \in [Locales -> {NoFile, File(Stringify(DocNested)),
                                 File(Stringify(DocArray))}]
    /\ jsFile = [l \in Locales |-> NoFile]
    /\ locales = scanLocales(jsonFile, jsFile)
    /\ heapDirty = FALSE
    /\ last = NoCall
    /\ calls = 0
    /\ pending = NoPending

SpecFrame == InitFrame /\ [][NextFrame]_vars

\* ------------------------------------------------- set() in its two file accesses
\* set(locale, path, value, skipIfExists) up to the return of loadLocale at
\* line 157: the document is in memory from here on
SetLoad(locale, path, value, skipIfExists) ==
    /\ calls < MaxCalls
    /\ ~pending.active
    /\ pending' = [active |-> TRUE, locale |-> locale, path |-> path,
                   value |-> value, skip |-> skipIfExists,
                   content |-> loadLocale(jsonFile, jsFile, locale)]
    /\ calls' = calls + 1
    /\ UNCHANGED <<jsonFile, jsFile, locales, heapDirty, last>>

\* a set() that reads the file again before it writes
SetSaveReloading ==
    /\ pending.active
    /\ \E hint \in Hints(pending.path, pending.skip, heapDirty) :
          \E r \in {set(jsonFile, jsFile, pending.locale, pending.path,
                        pending.value, pending.skip, hint)} :
          /\ jsonFile' = SetFiles(jsonFile, pending.locale, r)
          /\ heapDirty' = (heapDirty \/ r.heap)
          /\ last' = Call("set", pending.locale, pending.path, pending.value,
                          pending.skip, r.out, SetReturn(r.out), EmptyObj, Undefined)
    /\ pending' = NoPending
    /\ UNCHANGED <<jsFile, locales, calls>>

\* the rest of set(), lines 158-183: the walk over the document in memory and
\* saveLocale, which writes that document whatever the file holds by now
SetSave ==
    /\ pending.active
    /\ \E hint \in Hints(pending.path, pending.skip, heapDirty) :
          \E r \in {setLoaded(pending.content, pending.path, pending.value,
                              pending.skip, hint)} :
          /\ jsonFile' = SetFiles(jsonFile, pending.locale, r)
          /\ heapDirty' = (heapDirty \/ r.heap)
          /\ last' = Call("set", pending.locale, pending.path, pending.value,
                          pending.skip, r.out, SetReturn(r.out), EmptyObj, Undefined)
    /\ pending' = NoPending
    /\ UNCHANGED <<jsFile, locales, calls>>

NextRace ==
    \/ \E l \in Locales, p \in Paths, v \in SetValues, skip \in BOOLEAN :
          SetLoad(l, p, v, skip)
    \/ SetSave
    \/ \E l \in Locales, d \in EditedDocs : ExternalEdit(l, d)

SpecRace == InitFrame /\ [][NextRace]_vars

\* -------------------------------------------------------- merge, batchUpdate
\* the state the loop of merge threads: the files, what each set() did (outs,
\* in the order of the calls), and whether a set() threw
MergeState(json) == [json |-> json, outs |-> <<>>, threw |-> FALSE, heap |-> FALSE]

\* one turn of the loop of merge: this.set(locale, path, value, skipIfExists);
\* nothing catches what set() throws, so a throw ends the loop and the call
MergeOne(acc, js, locale, entry, skipIfExists, dirty, hint) ==
    IF acc.threw THEN acc
    ELSE Bind(set(acc.json, js, locale, entry.k, entry.v, skipIfExists,
                  IF dirty \/ acc.heap THEN hint ELSE "fresh"),
              LAMBDA r :
              [json |-> IF r.out = "threw" THEN acc.json
                        ELSE SetFiles(acc.json, locale, r),
               outs |-> Append(acc.outs, [locale |-> locale, path |-> entry.k,
                                          out |-> r.out]),
               threw |-> r.out = "threw",
               heap |-> acc.heap \/ r.heap])

RECURSIVE MergeEach(_, _, _, _, _, _, _, _)

\* for (const [path, value] of Object.entries(translations))
MergeEach(acc, js, locale, entries, i, skipIfExists, dirty, hint) ==
    IF i > Len(entries) THEN acc
    ELSE Bind(MergeOne(acc, js, locale, entries[i], skipIfExists, dirty, hint),
              LAMBDA next : MergeEach(next, js, locale, entries, i + 1,
                                      skipIfExists, dirty, hint))

\* merge(locale, translations, skipIfExists); translations is given by its
\* entries, each a path and a value
merge(json, js, locale, translations, skipIfExists, dirty, hint) ==
    MergeEach(MergeState(json), js, locale, translations, 1, skipIfExists, dirty, hint)

RECURSIVE BatchEach(_, _, _, _, _, _, _, _)

\* for (const [locale, translations] of Object.entries(updates))
BatchEach(acc, js, known, updates, i, skipIfExists, dirty, hint) ==
    IF i > Len(updates) \/ acc.threw THEN acc
    ELSE IF Includes(known, updates[i].k)
    THEN Bind(MergeEach(acc, js, updates[i].k, updates[i].v, 1, skipIfExists,
                        dirty, hint),
              LAMBDA next : BatchEach(next, js, known, updates, i + 1,
                                      skipIfExists, dirty, hint))
    ELSE BatchEach([acc EXCEPT !.outs = Append(acc.outs,
                                    [locale |-> updates[i].k, path |-> <<>>,
                                     out |-> "unknown"])],
                   js, known, updates, i + 1, skipIfExists, dirty, hint)

\* batchUpdate(updates, skipIfExists)
batchUpdate(json, js, known, updates, skipIfExists, dirty, hint) ==
    BatchEach(MergeState(json), js, known, updates, 1, skipIfExists, dirty, hint)

\* what the walks of a list of entries can meet on a built-in function object
MergeHints(entries, skipIfExists, dirty) ==
    LET through == {i \in 1..Len(entries) :
                       \E j \in 1..Len(entries[i].k) : entries[i].k[j] \in InheritedKeys}
    IN IF through = {} THEN {"fresh"}
       ELSE UNION {Hints(entries[i].k, skipIfExists, dirty \/ Len(entries) > 1) :
                      i \in through}

RECURSIVE Flatten(_, _)

\* the entries of every locale of the updates, one after the other
Flatten(updates, i) ==
    IF i > Len(updates) THEN <<>> ELSE updates[i].v \o Flatten(updates, i + 1)

\* helper.merge(locale, translations, skipIfExists)
Merge(locale, translations, skipIfExists) ==
    /\ calls < MaxCalls
    /\ \E hint \in MergeHints(translations, skipIfExists, heapDirty) :
          \E r \in {merge(jsonFile, jsFile, locale, translations, skipIfExists,
                          heapDirty, hint)} :
             /\ jsonFile' = r.json
             /\ heapDirty' = (heapDirty \/ r.heap)
             /\ last' = Call("merge", locale, <<>>, translations, skipIfExists,
                             IF r.threw THEN "threw" ELSE "returned", Undefined,
                             r.outs, Undefined)
    /\ calls' = calls + 1
    /\ UNCHANGED <<jsFile, locales, pending>>

\* helper.batchUpdate(updates, skipIfExists)
BatchUpdate(updates, skipIfExists) ==
    /\ calls < MaxCalls
    /\ \E hint \in MergeHints(Flatten(updates, 1), skipIfExists, heapDirty) :
          \E r \in {batchUpdate(jsonFile, jsFile, locales, updates, skipIfExists,
                                heapDirty, hint)} :
             /\ jsonFile' = r.json
             /\ heapDirty' = (heapDirty \/ r.heap)
             /\ last' = Call("batchUpdate", "", <<>>, updates, skipIfExists,
                             IF r.threw THEN "threw" ELSE "returned", Undefined,
                             r.outs, Undefined)
    /\ calls' = calls + 1
    /\ UNCHANGED <<jsFile, locales, pending>>

\* the paths of the entries: "a.a" meets the scalar of { a: "s" }, "a" is
\* there already, "c" is new
MergePaths == {<<"a", "a">>, <<"a">>, <<"c">>}

\* objects of one or two entries
MergeTranslations ==
    {<<Entry(p, Str("v1"))>> : p \in MergePaths}
    \cup {<<Entry(pq[1], Str("v1")), Entry(pq[2], Str("v2"))>> :
             pq \in {x \in MergePaths \X MergePaths : x[1] # x[2]}}

\* the updates of batchUpdate: one or two locales, each with its translations
BatchTranslations ==
    {<<Entry(<<"a", "a">>, Str("v1"))>>, <<Entry(<<"c">>, Str("v1"))>>,
     <<Entry(<<"a", "a">>, Str("v1")), Entry(<<"c">>, Str("v2"))>>}

BatchUpdates ==
    {<<Entry(l, t)>> : l \in Locales, t \in BatchTranslations}
    \cup {<<Entry(ls[1], t), Entry(ls[2], u)>> :
             ls \in {p \in Locales \X Locales : p[1] # p[2]},
             t \in BatchTranslations, u \in BatchTranslations}

InitMerge ==
    /\ jsonFile \in [Locales -> {NoFile, File(Stringify(DocFlat)),
                                 File(Stringify(DocNested))}]
    /\ jsFile = [l \in Locales |-> NoFile]
    /\ locales = scanLocales(jsonFile, jsFile)
    /\ heapDirty = FALSE
    /\ last = NoCall
    /\ calls = 0
    /\ pending = NoPending

NextMerge ==
    \/ \E l \in Locales, t \in MergeTranslations, skip \in BOOLEAN : Merge(l, t, skip)
    \/ \E u \in BatchUpdates, skip \in BOOLEAN : BatchUpdate(u, skip)

SpecMerge == InitMerge /\ [][NextMerge]_vars

\* ------------------------------------------------- .js locales (migration)
\* module.exports = {"a": {"a": "s"}, "b": "t"};
JsNestedLiteral ==
    <<Tok("export", "module.exports")>> \o Stringify(DocNested) \o <<P(";")>>

JsTexts == {JsJsonLiteral, JsPlainLiteral, JsNestedLiteral}

\* somebody edits <locale>.js; the helper writes no .js file itself
ExternalJsEdit(locale, text) ==
    /\ calls < MaxCalls
    /\ jsFile[locale].exists
    /\ jsFile' = [jsFile EXCEPT ![locale] = File(text)]
    /\ last' = Call("editJs", locale, <<>>, Undefined, FALSE, "written", Undefined,
                    EmptyObj, Undefined)
    /\ calls' = calls + 1
    /\ UNCHANGED <<jsonFile, locales, heapDirty, pending>>

\* every locale starts as a .js file alone
InitMigrate ==
    /\ jsonFile = [l \in Locales |-> NoFile]
    /\ jsFile \in [Locales -> {File(t) : t \in JsTexts}]
    /\ locales = scanLocales(jsonFile, jsFile)
    /\ heapDirty = FALSE
    /\ last = NoCall
    /\ calls = 0
    /\ pending = NoPending

NextMigrate ==
    \/ \E l \in Locales, p \in Paths, v \in SetValues, skip \in BOOLEAN : Set(l, p, v, skip)
    \/ \E l \in Locales, p \in Paths : Get(l, p)
    \/ \E l \in Locales : LoadLocale(l)
    \/ \E l \in Locales, t \in JsTexts : ExternalJsEdit(l, t)

SpecMigrate == InitMigrate /\ [][NextMigrate]_vars

\* ------------------------------------------------ base-locale detection
\* MissingTranslationChecker of check-missing-translations.js

possibleBaseLocales == <<"en", "en-US", "en-GB", "en_US", "en_GB">>

\* the locale identifiers of the directories of this part, in lexical order
DetectNames == <<"de", "en", "en-US", "zh-hans">>

DetectLocales == {DetectNames[i] : i \in 1..Len(DetectNames)}

\* the files of the locales directory: <locale>.json and <locale>.js
DirFiles(json, js) ==
    {[name |-> l, ext |-> ".json"] : l \in {n \in DOMAIN json : json[n].exists}}
    \cup {[name |-> l, ext |-> ".js"] : l \in {n \in DOMAIN js : js[n].exists}}

RECURSIVE Listings(_)

\* what readdirSync may answer for a set of files: the order is the file
\* system's, so any order
Listings(files) ==
    IF files = {} THEN {<<>>}
    ELSE UNION {{<<f>> \o rest : rest \in Listings(files \ {f})} : f \in files}

RECURSIVE FirstProbe(_, _)

\* the first entry of possibleBaseLocales from the i-th on that is available
FirstProbe(available, i) ==
    IF i > Len(possibleBaseLocales) THEN ""
    ELSE IF \E j \in 1..Len(available) : available[j] = possibleBaseLocales[i]
    THEN possibleBaseLocales[i]
    ELSE FirstProbe(available, i + 1)

\* detectBaseLocale() on a checker whose detectedLocale is `detected` and
\* whose defaultLocale is `defaultLocale` ("" for null): [ret, out]
detectBaseLocale(listing, defaultLocale, detected) ==
    IF detected # "" THEN [ret |-> detected, out |-> "cached"]
    ELSE IF defaultLocale # "" THEN [ret |-> defaultLocale, out |-> "configured"]
    ELSE LET availableLocales == [i \in 1..Len(listing) |-> listing[i].name] IN
         IF FirstProbe(availableLocales, 1) # ""
         THEN [ret |-> FirstProbe(availableLocales, 1), out |-> "english"]
         ELSE IF Len(availableLocales) > 0
         THEN [ret |-> availableLocales[1], out |-> "warned"]
         ELSE [ret |-> "", out |-> "none"]

\* loadDefaultTranslations(): reads <base>.json and nothing else
loadDefaultTranslations(json, baseLocale) ==
    IF baseLocale = "" THEN [ok |-> FALSE, node |-> Null]
    ELSE IF baseLocale \in DOMAIN json /\ json[baseLocale].exists
    THEN Bind(JsonParse(json[baseLocale].text), LAMBDA r :
              IF r.ok THEN [ok |-> TRUE, node |-> r.node]
              ELSE [ok |-> FALSE, node |-> Null])
    ELSE [ok |-> FALSE, node |-> Null]

\* the detectedLocale of the checker the last call was made on
Detected == IF last.op \in {"detectBaseLocale", "loadDefaultTranslations"}
            THEN last.locale ELSE ""

\* checker.detectBaseLocale(); the configured default is recorded in `src`
DetectBaseLocale(defaultLocale, listing) ==
    /\ calls < MaxCalls
    /\ \E r \in {detectBaseLocale(listing, defaultLocale, Detected)} :
       last' = Call("detectBaseLocale", r.ret, <<>>, Undefined, FALSE, r.out,
                    IF r.ret = "" THEN Null ELSE Str(r.ret), EmptyObj,
                    Str(defaultLocale))
    /\ calls' = calls + 1
    /\ UNCHANGED <<jsonFile, jsFile, locales, heapDirty, pending>>

\* checker.loadDefaultTranslations()
LoadDefaultTranslations(defaultLocale, listing) ==
    /\ calls < MaxCalls
    /\ \E r \in {detectBaseLocale(listing, defaultLocale, Detected)} :
       \E content \in {loadDefaultTranslations(jsonFile, r.ret)} :
       last' = Call("loadDefaultTranslations", r.ret, <<>>, Undefined, FALSE,
                    IF content.ok THEN "loaded" ELSE "null", content.node,
                    EmptyObj, Str(defaultLocale))
    /\ calls' = calls + 1
    /\ UNCHANGED <<jsonFile, jsFile, locales, heapDirty, pending>>

\* each locale of the directory is absent, a .json file or a .js file
DetectDisk ==
    {[json |-> NoFile, js |-> NoFile],
     [json |-> File(Stringify(DocFlat)), js |-> NoFile],
     [json |-> NoFile, js |-> File(JsJsonLiteral)]}

InitDetect ==
    /\ \E disk \in [DetectLocales -> DetectDisk] :
          /\ jsonFile = [l \in DetectLocales |-> disk[l].json]
          /\ jsFile = [l \in DetectLocales |-> disk[l].js]
    /\ locales = <<>>
    /\ heapDirty = FALSE
    /\ last = NoCall
    /\ calls = 0
    /\ pending = NoPending

DefaultLocales == {"", "zh-hans"}

NextDetect ==
    \/ \E d \in DefaultLocales, listing \in Listings(DirFiles(jsonFile, jsFile)) :
          DetectBaseLocale(d, listing)
    \/ \E d \in DefaultLocales, listing \in Listings(DirFiles(jsonFile, jsFile)) :
          LoadDefaultTranslations(d, listing)

SpecDetect == InitDetect /\ [][NextDetect]_vars

\* ------------------------------------------------ checkMissingTranslations
\* Array.from(allKeys).sort() over the keys of the model
KeyOrder == <<<<"page.title">>, <<"section.intro">>>>

SortKeys(keys) ==
    SelectSeq(KeyOrder, LAMBDA k : \E i \in 1..Len(keys) : keys[i] = k)
    \o SelectSeq(keys, LAMBDA k : \A i \in 1..Len(KeyOrder) : KeyOrder[i] # k)

\* hasTranslationKey(translations, key): the walk with `k in current`, then
\* neither undefined, null nor ''
hasTranslationKey(translations, key) ==
    Bind(GetIn(translations, KeySegments(key)),
         LAMBDA current : current \notin {Undefined, Null, Str("")})

\* the names reportResults can resolve: its parameters, `this`, the imports
\* and the class of the module
ReportScope ==
    {"missingKeys", "foundKeys", "fileKeyMap", "allKeys", "this", "console",
     "Object", "fs", "path", "MissingTranslationChecker"}

\* the names its first three console.log lines read
ReportReads == {"console", "baseLocale", "foundKeys", "missingKeys", "allKeys"}

\* reportResults(missingKeys, foundKeys, fileKeyMap, allKeys): how it ends
reportResults(missingKeys, foundKeys, allKeys) ==
    IF ReportReads \subseteq ReportScope THEN "returned" ELSE "ReferenceError"

\* checkMissingTranslations() over a project whose .vue files hold `content`:
\* [out, ret, found, missing], found and missing being the lists of step 4
checkMissingTranslations(json, listing, defaultLocale, content) ==
    LET allKeys == SortKeys(extractTKeys(content))
        base == detectBaseLocale(listing, defaultLocale, "").ret
        defaultTranslations == loadDefaultTranslations(json, base)
    IN IF ~defaultTranslations.ok \/ Falsy(defaultTranslations.node)
       THEN [out |-> "no base", ret |-> Undefined, found |-> <<>>, missing |-> <<>>,
             allKeys |-> allKeys]
       ELSE LET foundKeys ==
                   SelectSeq(allKeys, LAMBDA key :
                             hasTranslationKey(defaultTranslations.node, key))
                missingKeys ==
                   SelectSeq(allKeys, LAMBDA key :
                             ~hasTranslationKey(defaultTranslations.node, key))
            IN IF reportResults(missingKeys, foundKeys, allKeys) = "returned"
               THEN [out |-> "returned",
                     ret |-> [missingKeys |-> missingKeys, foundKeys |-> foundKeys,
                              allKeys |-> allKeys],
                     found |-> foundKeys, missing |-> missingKeys,
                     allKeys |-> allKeys]
               ELSE [out |-> reportResults(missingKeys, foundKeys, allKeys),
                     ret |-> Undefined, found |-> foundKeys,
                     missing |-> missingKeys, allKeys |-> allKeys]

\* checker.checkMissingTranslations(); `src` keeps the lists of step 4
CheckMissingTranslations(defaultLocale, listing, parts) ==
    /\ calls < MaxCalls
    /\ \E r \in {checkMissingTranslations(jsonFile, listing, defaultLocale,
                                          Lines(parts, 1))} :
       last' = Call("checkMissingTranslations",
                    detectBaseLocale(listing, defaultLocale, "").ret, <<>>, parts,
                    FALSE, r.out, r.ret, EmptyObj,
                    [found |-> r.found, missing |-> r.missing, allKeys |-> r.allKeys])
    /\ calls' = calls + 1
    /\ UNCHANGED <<jsonFile, jsFile, locales, heapDirty, pending>>

\* {"page": {"title": ""}, "section": {"intro": null}}
DocPageBlank ==
    Obj(<<Entry("page", Obj(<<Entry("title", Str(""))>>)),
          Entry("section", Obj(<<Entry("intro", Null)>>))>>)

MissingParts == SeqsUpTo([form : {"$t('k')", "t('k')"}, key : Keys], MaxParts)

InitMissing ==
    /\ jsonFile \in
          {f \in [DetectLocales -> {NoFile, File(Stringify(DocPage)),
                                    File(Stringify(DocPageBlank))}] :
              f["en-US"] = NoFile /\ f["zh-hans"] = NoFile}
    /\ jsFile \in
          {f \in [DetectLocales -> {NoFile, File(JsJsonLiteral)}] :
              /\ f["en-US"] = NoFile /\ f["zh-hans"] = NoFile
              /\ \A l \in DetectLocales : ~(f[l].exists /\ jsonFile[l].exists)}
    /\ locales = <<>>
    /\ heapDirty = FALSE
    /\ last = NoCall
    /\ calls = 0
    /\ pending = NoPending

NextMissing ==
    \E d \in {"", "de"}, listing \in Listings(DirFiles(jsonFile, jsFile)),
       parts \in MissingParts :
          CheckMissingTranslations(d, listing, parts)

SpecMissing == InitMissing /\ [][NextMissing]_vars

\* ------------------------------------------- findings of script-like files
\* The patterns of _shouldSkipString, over the pieces of the model: each set
\* holds the pieces the pattern matches. A text of several pieces holds a
\* blank, a "/" or a ":" between its words, so the patterns that are anchored
\* at both ends match texts of one piece only.
UrlPrefixes == {"http://", "https://"}

\* the pieces that begin with ".", "/" or "\"
PathStarts == {"./", "/h1", "/p", "/span", "/code", "/pre", "//", "/*"}

HasSlash == PathStarts \cup {"https://", "example.com/help", "docs/About.html"}

HasDot == {"./", "example.com/help", "docs/About.html", "page.title", "i18n."}

\* /^[A-Z_]+$/
AllCaps == {"SUBMIT", "DELETE", "OK"}

\* /^[a-z][a-zA-Z]*$/
LowerCamel ==
    {"span", "code", "pre", "flag", "me", "doNotFlag", "sales", "t", "p",
     "submit", "faq", "help", "all", "your", "changes", "now", "click", "here",
     "title", "class", "button", "us"}

\* /^\d+(\.\d+)?(%|px|em|rem|vh|vw|ms|s)?$/
Numeric == {"12px"}

\* /^#[0-9a-fA-F]{3,8}$/
HexColours == {"#fff"}

eventNames == {"click", "change", "input", "submit", "load", "error", "resize", "scroll"}

httpMethods == {"GET", "POST", "PUT", "DELETE", "PATCH", "HEAD", "OPTIONS"}

technicalTerms ==
    {"utf8", "utf-8", "json", "xml", "html", "css", "js", "ts",
     "vue", "nuxt", "node", "npm", "yarn", "webpack", "vite",
     "localhost", "true", "false", "null", "undefined",
     "image", "video", "audio", "text", "application",
     "jpeg", "jpg", "png", "gif", "webp", "svg", "avif",
     "error", "warning", "info", "debug", "log"}

\* piece.toLowerCase()
LowerOf(piece) ==
    CASE piece = "SUBMIT" -> "submit"
      [] piece = "DELETE" -> "delete"
      [] piece = "OK" -> "ok"
      [] piece = "Welcome" -> "welcome"
      [] piece = "Contact" -> "contact"
      [] piece = "Save" -> "save"
      [] piece = "Also" -> "also"
      [] piece = "doNotFlag" -> "donotflag"
      [] piece = "docs/About.html" -> "docs/about.html"
      [] OTHER -> piece

\* the text is one piece, of the class
Whole(text, class) == Len(text) = 1 /\ text[1] \in class

\* _shouldSkipString(str, line)
shouldSkipString(text) ==
    \/ text # <<>> /\ Head(text) \in UrlPrefixes
    \/ text # <<>> /\ Head(text) \in PathStarts
    \/ (\E i \in 1..Len(text) : text[i] \in HasSlash)
       /\ (\E i \in 1..Len(text) : text[i] \in HasDot)
    \/ Whole(text, AllCaps)
    \/ Whole(text, LowerCamel) /\ Chars(text) < 4
    \/ Whole(text, Numeric)
    \/ Whole(text, HexColours)
    \/ Whole(text, eventNames)
    \/ Whole(text, httpMethods)
    \/ Len(text) = 1 /\ LowerOf(text[1]) \in technicalTerms
    \/ Chars(text) = 1

\* the names of the two attribute patterns of _isAttributeContext; the model
\* holds no data-, v-, :, @ or aria- name
attributeNames ==
    {"class", "className", "id", "style", "src", "href", "alt", "title",
     "to", "from", "name", "type", "value", "placeholder"}

\* /\s(name)\s*=\s*["']?$/ on the pieces before the string
EndsInAttribute(beforeString) ==
    LET a == TrimEnd(beforeString)
        b == IF a # <<>> /\ a[Len(a)] \in {"\"", "'"}
             THEN TrimEnd(SubSeq(a, 1, Len(a) - 1)) ELSE a
        c == IF b # <<>> /\ b[Len(b)] = "="
             THEN TrimEnd(SubSeq(b, 1, Len(b) - 1)) ELSE <<>>
    IN /\ Len(c) >= 2
       /\ c[Len(c)] \in attributeNames
       /\ IsWs(c[Len(c) - 1])

\* _isAttributeContext(line, position)
isAttributeContext(line, position) ==
    LET beforeString == SubSeq(line, 1, position)
    IN \/ LastIndexOf(beforeString, <<"<">>) > LastIndexOf(beforeString, <<">">>)
       \/ EndsInAttribute(beforeString)

\* line.includes(cue) for the cues of _categorizeString and _getSeverity: a
\* cue stands in one piece of the model, but for the three that end in a sign
LineIncludes(line, cue) ==
    CASE cue = "<title>" -> IndexesOf(line, <<"<", "title", ">">>) # {}
      [] cue = "title:" -> IndexesOf(line, <<"title", ":">>) # {}
      [] cue = "title =" -> IndexesOf(line, <<"title", " ", "=">>) # {}
      [] cue = "title" -> IncludesPiece(line, "title") \/ IncludesPiece(line, "page.title")
      [] cue = "desc" -> IncludesPiece(line, "desc") \/ IncludesPiece(line, "description")
      [] OTHER -> IncludesPiece(line, cue)

\* _categorizeString(str, line)
categorizeString(line) ==
    IF \/ LineIncludes(line, "<title>") \/ LineIncludes(line, "title:")
       \/ LineIncludes(line, "title =")
    THEN "title"
    ELSE IF LineIncludes(line, "placeholder") \/ LineIncludes(line, "hint")
    THEN "placeholder"
    ELSE IF \/ LineIncludes(line, "button") \/ LineIncludes(line, "btn")
            \/ LineIncludes(line, "click")
    THEN "button"
    ELSE IF LineIncludes(line, "label") \/ LineIncludes(line, "text")
    THEN "label"
    ELSE IF LineIncludes(line, "error") \/ LineIncludes(line, "warning")
    THEN "message"
    ELSE IF LineIncludes(line, "description") \/ LineIncludes(line, "desc")
    THEN "description"
    ELSE "text"

\* a grading by length alone
getSeverityByLength(text, line) ==
    IF Chars(text) > 20 THEN "medium" ELSE "low"

\* _getSeverity(str, line); the texts of the model are in Latin script
getSeverity(text, line) ==
    IF \/ LineIncludes(line, "title") \/ LineIncludes(line, "button")
       \/ LineIncludes(line, "label")
    THEN "high"
    ELSE IF Chars(text) > 20 THEN "medium"
    ELSE "low"

\* the body of the loop without the call of _shouldSkipString
QuotedFindingUnfiltered(line, lineNumber, index, stringContent, findings) ==
    IF Chars(stringContent) < minLength \/ Chars(stringContent) > maxLength
    THEN findings
    ELSE IF isAttributeContext(line, index) THEN findings
    ELSE IF isInsideCodeOrPreTag(line, index) THEN findings
    ELSE IF isUserFacingText(stringContent)
    THEN Append(findings, [line |-> lineNumber, column |-> index + 1,
                           text |-> stringContent,
                           category |-> categorizeString(line),
                           severity |-> getSeverity(stringContent, line)])
    ELSE findings

\* what the body of the loop of _extractJSContent does with one match, the
\* opening quote standing at place index, counted from 0
QuotedFinding(line, lineNumber, index, stringContent, findings) ==
    IF Chars(stringContent) < minLength \/ Chars(stringContent) > maxLength
    THEN findings
    ELSE IF isAttributeContext(line, index) THEN findings
    ELSE IF isInsideCodeOrPreTag(line, index) THEN findings
    ELSE IF shouldSkipString(stringContent) THEN findings
    ELSE IF isUserFacingText(stringContent)
    THEN Append(findings, [line |-> lineNumber, column |-> index + 1,
                           text |-> stringContent,
                           category |-> categorizeString(line),
                           severity |-> getSeverity(stringContent, line)])
    ELSE findings

RECURSIVE QuotedFrom(_, _, _, _, _)

\* while ((match = pattern.exec(line)) !== null) for the pattern of one quote
\* sign: from an opening sign to the next sign of its kind (no text of the
\* model holds a backslash)
QuotedFrom(line, lineNumber, quote, from, findings) ==
    LET starts == {i \in from..Len(line) :
                      /\ line[i] = quote
                      /\ \E j \in (i + 1)..Len(line) : line[j] = quote}
    IN IF starts = {} THEN findings
       ELSE LET i == Min(starts)
                j == Min({k \in (i + 1)..Len(line) : line[k] = quote})
            IN QuotedFrom(line, lineNumber, quote, j + 1,
                   QuotedFinding(line, lineNumber, i - 1,
                                 SubSeq(line, i + 1, j - 1), findings))

\* the sign that opens and closes a template literal, by name
Backtick == "backtick"

\* _extractJSContent(line, lineNumber, filePath, options): the three patterns
\* in their order
extractJSContent(line, lineNumber) ==
    QuotedFrom(line, lineNumber, Backtick, 1,
        QuotedFrom(line, lineNumber, "'", 1,
            QuotedFrom(line, lineNumber, "\"", 1, <<>>)))

\* _extractStringsFromLine(line, lineNumber, filePath, options) for a file
\* of extension ext, includeComments being false
extractStringsFromLineOf(ext, line, lineNumber) ==
    IF isI18nLine(line) THEN <<>>
    ELSE IF isCommentLine(line) THEN <<>>
    ELSE IF ext \in {".vue", ".jsx", ".tsx"}
    THEN extractVueTemplateContent(line, lineNumber)
    ELSE extractJSContent(line, lineNumber)

\* the texts, the line starts and the ways a text stands on its line
ScanTexts ==
    {<<"Welcome">>, <<"SUBMIT">>, <<"submit">>, <<"faq">>, <<"DELETE">>,
     <<"https://", "example.com/help">>, <<"./", "help">>, <<"docs/About.html">>,
     <<"Save", " ", "all", " ", "your", " ", "changes", " ", "now">>,
     <<"click", " ", "here">>, <<"Contact", " ", "us">>, <<"12px">>, <<"#fff">>}

LineStarts ==
    {<<>>, <<"title", ":", " ">>, <<"button", " ">>, <<" ", "class", "=">>,
     <<"<", "code", ">">>}

Wraps == {"tag", "'", "\"", Backtick}

Wrap(wrap, text) ==
    IF wrap = "tag" THEN Element("p", text) ELSE <<wrap>> \o text \o <<wrap>>

ScanExtensions == {".vue", ".js"}

\* helper.checkHardcodedStrings(dir, { extensions: [ext] }), the directory
\* holding one file of the extension, of one line
ScanLine(ext, start, wrap, text) ==
    /\ calls < MaxCalls
    /\ \E line \in {start \o Wrap(wrap, text)} :
       \E findings \in {IF Trim(line) = <<>> THEN <<>>
                        ELSE extractStringsFromLineOf(ext, line, 1)} :
       last' = Call("scanLine", ext, line, Undefined, wrap = "tag", "returned",
                    findings, EmptyObj, text)
    /\ calls' = calls + 1
    /\ UNCHANGED <<jsonFile, jsFile, locales, heapDirty, pending>>

NextFindings ==
    \E ext \in ScanExtensions, start \in LineStarts, wrap \in Wraps,
       text \in ScanTexts : ScanLine(ext, start, wrap, text)

SpecFindings == InitEmpty /\ [][NextFindings]_vars

\* ----------------------------------------- the locales a helper knows of
\* getAll(path): the values of the known locales that have one
getAll(json, js, known, path) ==
    SelectSeq([i \in 1..Len(known) |-> Entry(known[i], get(json, js, known[i], path))],
              LAMBDA e : e.v # Null)

\* getMissing(path): the known locales without the key
getMissing(json, js, known, path) ==
    SelectSeq(known, LAMBDA locale : ~has(json, js, locale, path))

\* helper.getAll(path); the locales it went over are recorded in `value`
GetAll(path) ==
    /\ calls < MaxCalls
    /\ last' = Call("getAll", "", path, locales, FALSE, "returned",
                    Obj(getAll(jsonFile, jsFile, locales, path)), EmptyObj, Undefined)
    /\ calls' = calls + 1
    /\ UNCHANGED <<jsonFile, jsFile, locales, heapDirty, pending>>

\* helper.getMissing(path)
GetMissing(path) ==
    /\ calls < MaxCalls
    /\ last' = Call("getMissing", "", path, locales, FALSE, "returned",
                    getMissing(jsonFile, jsFile, locales, path), EmptyObj, Undefined)
    /\ calls' = calls + 1
    /\ UNCHANGED <<jsonFile, jsFile, locales, heapDirty, pending>>

\* somebody removes <locale>.json from the directory
ExternalRemove(locale) ==
    /\ calls < MaxCalls
    /\ jsonFile[locale].exists
    /\ jsonFile' = [jsonFile EXCEPT ![locale] = NoFile]
    /\ last' = Call("remove", locale, <<>>, Undefined, FALSE, "removed", Undefined,
                    EmptyObj, Undefined)
    /\ calls' = calls + 1
    /\ UNCHANGED <<jsFile, locales, heapDirty, pending>>

\* the helper is constructed over a directory of .json files: this.locales
\* is scanned here and nowhere else
InitKnown ==
    /\ jsonFile \in [Locales -> {NoFile, File(Stringify(DocFlat)),
                                 File(Stringify(DocNested))}]
    /\ jsFile = [l \in Locales |-> NoFile]
    /\ locales = scanLocales(jsonFile, jsFile)
    /\ heapDirty = FALSE
    /\ last = NoCall
    /\ calls = 0
    /\ pending = NoPending

NextKnown ==
    \/ \E l \in Locales : ExternalEdit(l, DocFlat)
    \/ \E l \in Locales : ExternalRemove(l)
    \/ \E l \in Locales, p \in Paths, v \in SetValues : Set(l, p, v, FALSE)
    \/ \E tr \in TranslationSets, p \in Paths : SetMultiple(tr, p, FALSE)
    \/ \E l \in Locales, p \in Paths : Copy(l, p, <<>>)
    \/ \E p \in Paths : GetAll(p)
    \/ \E p \in Paths : GetMissing(p)

SpecKnown == InitKnown /\ [][NextKnown]_vars

\* ------------------------------------------------------- the scanned list
\* helper.getLocales()
GetLocales ==
    /\ calls < MaxCalls
    /\ last' = Call("getLocales", "", <<>>, Undefined, FALSE, "returned", locales,
                    EmptyObj, Undefined)
    /\ calls' = calls + 1
    /\ UNCHANGED <<jsonFile, jsFile, locales, heapDirty, pending>>

\* helper.scanLocales() called again; it returns the list and stores nothing
ScanLocales ==
    /\ calls < MaxCalls
    /\ last' = Call("scanLocales", "", <<>>, Undefined, FALSE, "returned",
                    scanLocales(jsonFile, jsFile), EmptyObj, Undefined)
    /\ calls' = calls + 1
    /\ UNCHANGED <<jsonFile, jsFile, locales, heapDirty, pending>>

NextListed ==
    \/ GetLocales
    \/ ScanLocales
    \/ \E p \in Paths : GetMissing(p)
    \/ \E l \in Locales, p \in Paths : Copy(l, p, <<>>)

SpecListed == Init /\ [][NextListed]_vars

\* ------------------------------------------------- the entries of a report
\* directories whose base document may be the empty object
InitStats ==
    /\ jsonFile \in
          {f \in [CheckLocales -> {NoFile} \cup {File(Stringify(d)) : d \in InitDocs}] :
              /\ f[BaseLocale] # NoFile
              /\ f["de-DE"] \in {NoFile, File(Stringify(DocFlat))}
              /\ f["fr-FR"] = NoFile}
    /\ jsFile = [l \in CheckLocales |-> NoFile]
    /\ locales = scanLocales(jsonFile, jsFile)
    /\ heapDirty = FALSE
    /\ last = NoCall
    /\ calls = 0
    /\ pending = NoPending

NextStats ==
    \/ GetStats
    \/ \E detailed \in BOOLEAN : CheckTranslations(detailed)

SpecStats == InitStats /\ [][NextStats]_vars

\* ------------------------------------------------ the files that are scanned
\* the default of the option excludeDirs
excludeDirs == {"node_modules", ".git", "dist", "build", ".nuxt", ".output"}

\* the files of a project, each the names from the project root down
ProjectFiles ==
    {<<"src", "App.vue">>, <<"src", "main.js">>, <<"builder", "App.vue">>,
     <<"build", "App.vue">>, <<"dist", "Old.vue">>, <<"distribution.vue">>,
     <<"Home.jsx">>}

\* the entries of excludeDirs that the name holds as a substring
ExcludedIn(name) ==
    CASE name \in {"build", "builder"} -> {"build"}
      [] name \in {"dist", "distribution.vue"} -> {"dist"}
      [] OTHER -> {}

\* path.extname(item)
ExtName(item) ==
    CASE item \in {"App.vue", "Old.vue", "distribution.vue"} -> ".vue"
      [] item = "main.js" -> ".js"
      [] item = "Home.jsx" -> ".jsx"
      [] OTHER -> ""

\* excludeDirs.some(excluded => relativePath.includes(excluded)): no entry
\* holds a separator, so it stands within one name of the path
PathExcluded(relativePath) ==
    \E i \in 1..Len(relativePath) : ExcludedIn(relativePath[i]) \cap excludeDirs # {}

RECURSIVE scanDirectory(_, _, _, _)

\* scanDirectory(dir) of checkHardcodedStrings: the files handed to _scanFile
scanDirectory(files, dir, extensions, excludeFiles) ==
    LET under == {f \in files : Len(f) > Len(dir) /\ SubSeq(f, 1, Len(dir)) = dir}
        items == {f[Len(dir) + 1] : f \in under}
    IN UNION {IF PathExcluded(dir \o <<item>>) THEN {}
              ELSE IF \E f \in under : f[Len(dir) + 1] = item /\ Len(f) > Len(dir) + 1
              THEN scanDirectory(files, dir \o <<item>>, extensions, excludeFiles)
              ELSE IF ExtName(item) \in extensions /\ item \notin excludeFiles
              THEN {dir \o <<item>>}
              ELSE {} : item \in items}

\* helper.checkHardcodedStrings(projectDir, { extensions, excludeFiles })
\* over a project that holds `files`
ScanProject(files, extensions, excludeFiles) ==
    /\ calls < MaxCalls
    /\ last' = Call("scanDirectory", "", <<>>,
                    [files |-> files, extensions |-> extensions,
                     excludeFiles |-> excludeFiles],
                    FALSE, "returned",
                    scanDirectory(files, <<>>, extensions, excludeFiles),
                    EmptyObj, Undefined)
    /\ calls' = calls + 1
    /\ UNCHANGED <<jsonFile, jsFile, locales, heapDirty, pending>>

NextProject ==
    \E files \in SUBSET ProjectFiles, extensions \in {{".vue"}, {".vue", ".jsx"}},
       excludeFiles \in {{}, {"App.vue"}} :
          ScanProject(files, extensions, excludeFiles)

SpecProject == InitEmpty /\ [][NextProject]_vars

\* ------------------------------------------------ enumeration and lookup
\* {"a.b": "x"} and {"a.b": "x", "a": {"b": "y"}}
DocDotted == Obj(<<Entry("a.b", Str("x"))>>)

DocDottedBeside ==
    Obj(<<Entry("a.b", Str("x")), Entry("a", Obj(<<Entry("b", Str("y"))>>))>>)

EnumDocs == {DocFlat, DocNested, DocArray, DocNullLeaf, DocDotted, DocDottedBeside}

EnumPaths == SeqsUpTo({"a", "b"}, MaxDepth) \ {<<>>}

InitEnum ==
    /\ jsonFile \in [Locales -> {File(Stringify(d)) : d \in EnumDocs}]
    /\ jsFile = [l \in Locales |-> NoFile]
    /\ locales = scanLocales(jsonFile, jsFile)
    /\ heapDirty = FALSE
    /\ last = NoCall
    /\ calls = 0
    /\ pending = NoPending

NextEnum ==
    \/ \E l \in Locales, p \in EnumPaths : Get(l, p)
    \/ \E l \in Locales, p \in EnumPaths : Has(l, p)

SpecEnum == InitEnum /\ [][NextEnum]_vars

\* ================================================================ properties
\* the value is a scalar translation: a string, a number or a boolean
IsScalar(n) == n.t \in {"str", "num", "bool"}

\* the document of a locale as the files `json` hold it
DocOf(json, locale) == loadLocale(json, jsFile, locale)

\* the locale has a document, and it is an object
LoadsObject(json, locale) == DocOf(json, locale).ok /\ DocOf(json, locale).node.t = "obj"

\* ------------------------------------------------------------------------ C1
\* C1: whenever set(L, P, V) reports success, a get(L, P) made right after it
\* returns V, whatever the document held before (a container, an array or a
\* null at a segment of P) and whatever the depth of P.
C1_SetThenGet ==
    (last.op = "set" /\ last.ret = Bool(TRUE))
        => get(jsonFile, jsFile, last.locale, last.path) = last.value

\* ------------------------------------------------------------------------ C2
\* the proper prefixes of the path of the last call that held a scalar before it
ScalarPrefixes ==
    {n \in 1..(Len(last.path) - 1) :
        IsScalar(get(last.pre, jsFile, last.locale, SubSeq(last.path, 1, n)))}

\* C2: when a proper prefix of P holds a scalar, set(L, P, V) is applied,
\* afterwards get(L, P) = V and the prefix holds a container, no longer the
\* scalar.
C2_ScalarBecomesContainer ==
    (last.op = "set" /\ ~last.skip)
        => \A n \in ScalarPrefixes :
              /\ last.out = "applied"
              /\ get(jsonFile, jsFile, last.locale, last.path) = last.value
              /\ IsObjectType(get(jsonFile, jsFile, last.locale,
                                  SubSeq(last.path, 1, n)))

\* ------------------------------------------------------------------------ C3
\* C3: a successful set(L, P, V1) followed by set(L, P, V2, skipIfExists = true)
\* leaves get(L, P) = V1.
C3_SkipKeepsFirstValue ==
    [][(/\ last.op = "set" /\ last.ret = Bool(TRUE)
        /\ last'.op = "set" /\ last'.skip /\ calls' = calls + 1
        /\ last'.locale = last.locale /\ last'.path = last.path)
          => get(jsonFile', jsFile', last.locale, last.path) = last.value]_vars

\* ------------------------------------------------------------------------ C4
\* C4: a skipped set is told apart from a failed one: in the result map of
\* setMultiple the entry of a skipped locale is not the value a failed set
\* returns, the command line does not count it as a failure, and a batch of
\* applied and skipped entries alone exits with code 0.
C4_SkippedIsNotFailed ==
    (last.op = "setMultiple" /\ last.out = "returned")
        => /\ \A i \in 1..Len(last.outs.kv) :
                 last.outs.kv[i].v = Str("skipped")
                    => /\ last.ret.kv[i].v # SetReturn("failed")
                       /\ i \notin CliFailed(last.ret)
           /\ (\A i \in 1..Len(last.outs.kv) :
                  last.outs.kv[i].v \in {Str("applied"), Str("skipped")})
                 => CliExitCode(last.ret) = 0

\* ------------------------------------------------------------------------ C5
\* C5: after copy(L1, P, [L2]) of a non-null source value into a locale that
\* has a document, get(L2, P) returns the value get(L1, P) had before the
\* copy, and the file of L1 is as it was.
C5_CopyThenGet ==
    (/\ last.op = "copy" /\ last.out # "nosource" /\ Len(last.value.kv) = 1
     /\ LoadsObject(last.pre, last.value.kv[1].v.s))
        => /\ last.out = "returned"
           /\ get(jsonFile, jsFile, last.value.kv[1].v.s, last.path) = last.src
           /\ (last.value.kv[1].v.s # last.locale
                  => jsonFile[last.locale] = last.pre[last.locale])

\* ------------------------------------------------------------------------ C6
RECURSIVE StoredAlong(_, _)

\* every segment of `keys` is a key stored in the node the walk has reached
StoredAlong(node, keys) ==
    \/ keys = <<>>
    \/ /\ IsObjectType(node)
       /\ HasOwn(node, Head(keys))
       /\ StoredAlong(node.kv[OwnIndex(node, Head(keys))].v, Tail(keys))

\* C6: get(L, P) changes no document, and it returns a value other than null
\* only when L has a document and every segment of P is a key stored in it
\* along the walk.
C6_GetNullUnlessStored ==
    last.op = "get"
        => /\ jsonFile = last.pre
           /\ last.ret # Null
                 => /\ DocOf(last.pre, last.locale).ok
                    /\ StoredAlong(DocOf(last.pre, last.locale).node, last.path)

\* ------------------------------------------------------------------------ C7
\* the locale has neither file, or its .json file does not parse
Unloadable(json, js, locale) ==
    \/ ~json[locale].exists /\ ~js[locale].exists
    \/ json[locale].exists /\ ~JsonParse(json[locale].text).ok

\* what each call answers for a locale without a document
NoDocumentAnswer(op) ==
    CASE op = "loadLocale" -> Null
      [] op = "get" -> Null
      [] op = "has" -> Bool(FALSE)
      [] op = "set" -> Bool(FALSE)

\* C7: for a locale whose files are absent or whose .json file is malformed,
\* loadLocale and get return null, has and set return false, none of them
\* throws and none creates or modifies a locale file.
C7_UnloadableLocale ==
    (/\ last.op \in {"loadLocale", "get", "has", "set"}
     /\ Unloadable(last.pre, jsFile, last.locale))
        => /\ last.out # "threw"
           /\ last.ret = NoDocumentAnswer(last.op)
           /\ jsonFile = last.pre

\* a set() on a locale whose .json file is malformed has returned false, after
\* an earlier call
C7_Witness ==
    /\ last.op = "set" /\ calls = MaxCalls
    /\ last.pre[last.locale] = File(MalformedJson)
    /\ last.ret = Bool(FALSE)

\* ------------------------------------------------------------------------ C8
\* C8: setMultiple returns a result map with one entry for each locale given,
\* in the order given; the entry of a locale that is not known is false and its
\* file is untouched; every known locale that has a document is set to its
\* value (skipIfExists aside), whatever happens to the other locales.
C8_ResultMapPerLocale ==
    last.op = "setMultiple"
        => /\ last.out = "returned"
           /\ Len(last.ret.kv) = Len(last.value.kv)
           /\ \A i \in 1..Len(last.value.kv) :
                 LET locale == last.value.kv[i].k IN
                 /\ last.ret.kv[i].k = locale
                 /\ ~Includes(locales, locale)
                       => /\ last.ret.kv[i].v = Bool(FALSE)
                          /\ jsonFile[locale] = last.pre[locale]
                 /\ (Includes(locales, locale) /\ ~last.skip
                        /\ LoadsObject(last.pre, locale))
                       => get(jsonFile, jsFile, locale, last.path) = last.value.kv[i].v

\* ------------------------------------------------------------------------ C9
RECURSIVE FiniteLeaves(_)

\* no number in the document is NaN or an infinity
FiniteLeaves(n) ==
    /\ n.t = "num" => n.s \notin NonFinite
    /\ \A i \in 1..Len(n.kv) : FiniteLeaves(n.kv[i].v)

MaxWidth == 2
MaxNest == 2

\* a node the enumeration expands: an object; an array is a leaf
Expanded(v) == v.t = "obj"

RECURSIVE IsLeafAt(_, _), KeyPathAt(_, _), Before(_, _)

\* idx, a sequence of entry positions, leads from obj through expanded nodes
\* to a leaf
IsLeafAt(obj, idx) ==
    /\ idx # <<>>
    /\ Head(idx) <= Len(obj.kv)
    /\ IF Len(idx) = 1 THEN ~Expanded(obj.kv[Head(idx)].v)
       ELSE /\ Expanded(obj.kv[Head(idx)].v)
            /\ IsLeafAt(obj.kv[Head(idx)].v, Tail(idx))

\* the keys met along idx, joined with dots
KeyPathAt(obj, idx) ==
    IF idx = <<>> THEN <<>>
    ELSE DotSegments(obj.kv[Head(idx)].k) \o KeyPathAt(obj.kv[Head(idx)].v, Tail(idx))

\* depth-first order in key order: the first position that differs is smaller
Before(p, q) ==
    /\ p # <<>> /\ q # <<>>
    /\ \/ Head(p) < Head(q)
       \/ Head(p) = Head(q) /\ Before(Tail(p), Tail(q))

LeafIndexes(obj) ==
    {idx \in SeqsUpTo(1..MaxWidth, MaxNest) \ {<<>>} : IsLeafAt(obj, idx)}

\* C10: _getAllPaths returns the dot-joined key paths of the leaves of the
\* document, one for each leaf, depth-first in key order, objects expanded and
\* arrays taken as leaves; for {"a":{"b":1,"c":2},"d":3} it returns
\* ["a.b","a.c","d"].
C10_LeafPathsInOrder ==
    last.op = "_getAllPaths"
        => LET paths == last.ret.kv
               leaves == LeafIndexes(last.value)
           IN /\ Len(paths) = Cardinality(leaves)
              /\ \A idx \in leaves :
                    paths[Cardinality({j \in leaves : Before(j, idx)}) + 1]
                        = KeyPathAt(last.value, idx)
              /\ last.value = ExampleDoc
                    => paths = <<<<"a", "b">>, <<"a", "c">>, <<"d">>>>

\* the paths of a document holding an object, an array of objects and a null
\* have been enumerated
C10_Witness ==
    /\ last.op = "_getAllPaths"
    /\ last.value = Obj(<<Entry("a", Obj(<<Entry("b", Num("1")), Entry("c", Null)>>)),
                          Entry("d", ArrOf(<<Obj(<<Entry("b", Num("1"))>>)>>))>>)
    /\ last.ret.kv = <<<<"a", "b">>, <<"a", "c">>, <<"d">>>>

\* ----------------------------------------------------------------------- C11
\* the last call is a completeness check over the scenario: en-US holds the
\* base document and `locale`, a known locale, the second document
ScenarioChecked(locale) ==
    /\ last.op \in {"getStats", "checkTranslations"}
    /\ last.pre[BaseLocale] = File(Stringify(ScenarioBase))
    /\ locale # BaseLocale
    /\ last.pre[locale] = File(Stringify(ScenarioSecond))

\* the entry of `locale` in the report of the last call
ReportOf(locale) ==
    LET entries == IF last.op = "getStats" THEN last.ret ELSE last.ret.locales
    IN entries.kv[OwnIndex(entries, locale)].v

\* C11 as stated: over the scenario the second locale is reported with
\* total = 4, missing = 3 and percentage 25.0%.
C11_ScenarioReport ==
    \A locale \in CheckLocales :
        ScenarioChecked(locale)
            => /\ ReportOf(locale).total = 4
               /\ ReportOf(locale).missing = 3
               /\ ReportOf(locale).percentage = [nan |-> FALSE, tenths |-> 250]

\* C11, amended: over the scenario the second locale is reported with
\* total = 4, missing = 2, the missing paths common.error and navigation.about
\* (and neither common.loading nor navigation.home), and percentage 50.0%.
C11_ScenarioReportTwoMissing ==
    \A locale \in CheckLocales :
        ScenarioChecked(locale)
            => /\ ReportOf(locale).total = 4
               /\ ReportOf(locale).complete = 2
               /\ ReportOf(locale).missing = 2
               /\ ReportOf(locale).missingPaths
                     = <<<<"common", "error">>, <<"navigation", "about">>>>
               /\ ReportOf(locale).percentage = [nan |-> FALSE, tenths |-> 500]

\* checkTranslations has reported on the scenario, zh-hans being the second
\* locale
C11_Witness ==
    /\ ScenarioChecked("zh-hans")
    /\ last.op = "checkTranslations"
    /\ last.ret.totalKeys = 4
    /\ last.ret.summary.totalMissing >= 2

\* ----------------------------------------------------------------------- C12
\* the known locales, as a set
KnownLocales == {locales[i] : i \in 1..Len(locales)}

\* the known locales holding the value v at the path
Holders(path, v) ==
    {l \in KnownLocales : get(last.pre, jsFile, l, path) = v}

\* the values two or more known locales hold at the path
SharedValues(path) ==
    {v \in {get(last.pre, jsFile, l, path) : l \in KnownLocales} \ {Null} :
        Cardinality(Holders(path, v)) >= 2}

\* the report has the value v at the path, with the locales holding it
Reported(report, path, v) ==
    /\ HasOwn(report, path)
    /\ report.kv[OwnIndex(report, path)].v.value = ToKey(v)
    /\ LET listed == report.kv[OwnIndex(report, path)].v.locales
       IN {listed[i] : i \in 1..Len(listed)} = Holders(path, v)

\* the leaf paths of the base document the last call found
BasePathsChecked ==
    LET paths == getAllPaths(DocOf(last.pre, BaseLocale).node)
    IN {paths[i] : i \in 1..Len(paths)}

\* C12: findDuplicates reports, for every leaf path of the base document,
\* every value that two or more known locales hold at that path, with all the
\* locales holding it; two different values each shared by two locales at one
\* path are both reported.
C12_EverySharedValueReported ==
    (last.op = "findDuplicates" /\ DocOf(last.pre, BaseLocale).ok)
        => /\ last.out = "returned"
           /\ \A path \in BasePathsChecked : \A v \in SharedValues(path) :
                 Reported(last.ret, path, v)

\* ----------------------------------------------------------------------- C13
\* the keys of the last extraction, as a set
KeysFound == {last.ret[i] : i \in 1..Len(last.ret)}

\* the last extraction ran over a file whose occurrences are written in the
\* two forms, in either order
ExtractedFrom(bare, template) ==
    /\ last.op = "extractTKeys"
    /\ \/ last.value = <<[form |-> bare, key |-> "page.title"],
                          [form |-> template, key |-> "section.intro"]>>
       \/ last.value = <<[form |-> template, key |-> "section.intro"],
                          [form |-> bare, key |-> "page.title"]>>

\* C13 as stated: over a file holding t('page.title') and
\* {{ t('section.intro') }} the extraction returns exactly the keys page.title
\* and section.intro.
C13_BareCallsExtracted ==
    ExtractedFrom("t('k')", "{{ t('k') }}")
        => KeysFound = {<<"page.title">>, <<"section.intro">>}

\* C13, amended: over a file holding $t('page.title') and
\* {{ $t('section.intro') }} the extraction returns exactly the keys page.title
\* and section.intro; over any file of one occurrence per line it returns the
\* keys of the occurrences written with $t, bare or interpolated, single or
\* double quoted, each once, and no key of a call of t without the dollar sign.
C13_DollarCallsExtracted ==
    last.op = "extractTKeys"
        => /\ ExtractedFrom("$t('k')", "{{ $t('k') }}")
                 => KeysFound = {<<"page.title">>, <<"section.intro">>}
           /\ KeysFound = {<<last.value[i].key>> :
                              i \in {j \in 1..Len(last.value) :
                                        last.value[j].form \in DollarForms}}
           /\ \A i, j \in 1..Len(last.ret) : last.ret[i] = last.ret[j] => i = j

\* one key has been extracted from two occurrences of it, a call and an
\* interpolation, both of which the two patterns match
C13_Witness ==
    /\ last.op = "extractTKeys"
    /\ last.value = <<[form |-> "$t(\"k\")", key |-> "page.title"],
                      [form |-> "{{ $t('k') }}", key |-> "page.title"]>>
    /\ last.ret = <<<<"page.title">>>>

\* ----------------------------------------------------------------------- C14
\* the line of the last scan and what the scan returned for it
ScannedLine == LineOf(last.value, 1)

\* the tag content of a line: the places g of a ">" and j of the next "<" with
\* text between them
TagContents(line) ==
    {c \in (1..Len(line)) \X (1..Len(line)) :
        /\ c[2] > c[1] + 1
        /\ line[c[1]] = ">" /\ line[c[2]] = "<"
        /\ \A k \in (c[1] + 1)..(c[2] - 1) : line[k] # "<"}

OpensAt(line, o, name) ==
    /\ o + 2 <= Len(line)
    /\ line[o] = "<" /\ line[o + 1] = name /\ line[o + 2] \in {">", " "}

ClosesAt(line, c, name) ==
    /\ c + 2 <= Len(line)
    /\ line[c] = "<" /\ line[c + 1] = "/" \o name /\ line[c + 2] = ">"

\* the text after place g lies between an opening <code> or <pre> tag and its
\* closing tag
InRegion(line, g) ==
    \E name \in {"code", "pre"} : \E o \in 1..g :
        /\ OpensAt(line, o, name)
        /\ ~\E c \in o..g : ClosesAt(line, c, name)
        /\ \E c \in g..Len(line) : ClosesAt(line, c, name)

\* the line holds tag content between an opening <code> or <pre> tag and its
\* closing tag
HasRegion(line) == \E c \in TagContents(line) : InRegion(line, c[1])

\* every <code> or <pre> tag opened before place g is closed before it
OutsideRegions(line, g) ==
    \A name \in {"code", "pre"} : \A o \in 1..g :
        OpensAt(line, o, name) => \E c \in o..g : ClosesAt(line, c, name)

\* text the scanner takes for user-facing: of a fitting length, no template
\* expression, and passing the test of _isUserFacingText
UserFacing(text) ==
    /\ text # <<>>
    /\ Chars(text) >= minLength /\ Chars(text) <= maxLength
    /\ ~IncludesPiece(text, "{{") /\ ~IncludesPiece(text, "}}")
    /\ isUserFacingText(text)

FindingAt(findings, g) == {i \in 1..Len(findings) : findings[i].column = g}

ExampleLine == <<"h1 Welcome", "code doNotFlag", "span Also flag me">>

ExampleFindings(findings) ==
    /\ Len(findings) = 2
    /\ findings[1].text = Welcome
    /\ findings[2].text = AlsoFlagMe

\* C14 as stated, for every line: tag content between an opening <code> or
\* <pre> tag and its closing tag is never a finding, user-facing tag content
\* outside those regions is always one, and the example line yields findings
\* for "Welcome" and "Also flag me" only.
C14_CodeRegionsSkipped ==
    last.op = "checkHardcodedStrings" =>
        /\ \A c \in TagContents(ScannedLine) :
              LET text == Trim(SubSeq(ScannedLine, c[1] + 1, c[2] - 1))
              IN /\ InRegion(ScannedLine, c[1]) =>
                        FindingAt(last.ret, c[1]) = {}
                 /\ /\ HasRegion(ScannedLine)
                    /\ OutsideRegions(ScannedLine, c[1]) /\ UserFacing(text)
                    => \E i \in FindingAt(last.ret, c[1]) : last.ret[i].text = text
        /\ last.value = ExampleLine => ExampleFindings(last.ret)

\* C14, amended: on every line, tag content between an opening <code> or <pre>
\* tag and its closing tag is never a finding; on a line that is neither
\* passed over as a line that uses a translation call nor as a comment,
\* user-facing tag content outside those regions is a finding; the example
\* line yields findings for "Welcome" and "Also flag me" only.
C14_CodeRegionsSkippedOnScannedLines ==
    last.op = "checkHardcodedStrings" =>
        /\ \A c \in TagContents(ScannedLine) :
              LET text == Trim(SubSeq(ScannedLine, c[1] + 1, c[2] - 1))
              IN /\ InRegion(ScannedLine, c[1]) =>
                        FindingAt(last.ret, c[1]) = {}
                 /\ /\ ~isI18nLine(ScannedLine) /\ ~isCommentLine(ScannedLine)
                    /\ HasRegion(ScannedLine)
                    /\ OutsideRegions(ScannedLine, c[1]) /\ UserFacing(text)
                    => \E i \in FindingAt(last.ret, c[1]) : last.ret[i].text = text
        /\ last.value = ExampleLine => ExampleFindings(last.ret)

\* the example line was scanned: two findings, none for "doNotFlag"
C14_Witness ==
    /\ last.op = "checkHardcodedStrings"
    /\ last.value = ExampleLine
    /\ ExampleFindings(last.ret)
    /\ \E c \in TagContents(ScannedLine) :
          /\ InRegion(ScannedLine, c[1])
          /\ SubSeq(ScannedLine, c[1] + 1, c[2] - 1) = DoNotFlag

\* ----------------------------------------------------------------------- C15
\* the completeness check over the files finds no locale with a missing key
NothingMissing ==
    LET r == checkTranslations(jsonFile, jsFile, locales, FALSE)
    IN r # Null /\ r.summary.totalMissing = 0

SomethingMissing ==
    LET r == checkTranslations(jsonFile, jsFile, locales, FALSE)
    IN r # Null /\ r.summary.totalMissing > 0

\* C15: the process exits with 0 when check, hardcode-check or
\* missing-translations finds nothing missing, and with a code other than 0
\* when hardcode-check has a finding or missing translations are found.
C15_ExitCodes ==
    /\ last.op = "cli check" =>
          /\ NothingMissing => last.ret = 0
          /\ SomethingMissing => last.ret # 0
    /\ last.op = "cli hardcode-check" =>
          /\ last.src = <<>> => last.ret = 0
          /\ last.src # <<>> => last.ret # 0
    /\ last.op = "cli missing-translations" =>
          /\ last.src = <<>> => last.ret = 0
          /\ last.src # <<>> => last.ret # 0

\* ----------------------------------------------------------------------- C16
RECURSIVE StoredValue(_, _)

\* the value stored at the path, every segment being a key stored along the walk
StoredValue(node, keys) ==
    IF keys = <<>> THEN node
    ELSE StoredValue(node.kv[OwnIndex(node, Head(keys))].v, Tail(keys))

\* the locale of the last call has a document that stores a value at the path
StoresAt(v) ==
    /\ DocOf(last.pre, last.locale).ok
    /\ StoredAlong(DocOf(last.pre, last.locale).node, last.path)
    /\ StoredValue(DocOf(last.pre, last.locale).node, last.path) = v

\* C16: has(L, P) is true exactly when get(L, P) is not null; it is false for
\* a path whose stored leaf is null and true for a path whose stored value is
\* the empty string, 0 or false.
C16_HasIffGetNotNull ==
    last.op = "has" =>
        /\ last.ret = Bool(TRUE) <=>
              get(last.pre, jsFile, last.locale, last.path) # Null
        /\ last.ret \in {Bool(TRUE), Bool(FALSE)}
        /\ StoresAt(Null) => last.ret = Bool(FALSE)
        /\ \A v \in {Str(""), Num("0"), Bool(FALSE)} :
              StoresAt(v) => last.ret = Bool(TRUE)

\* has was asked about a path that stores the empty string, and said true
C16_Witness ==
    /\ last.op = "has"
    /\ StoresAt(Str(""))
    /\ last.path = <<"a", "a">>
    /\ last.ret = Bool(TRUE)

\* ----------------------------------------------------------------------- C17
CompletenessChecks == {"checkTranslations", "getStats"}

IsPrefix(p, q) == Len(p) <= Len(q) /\ SubSeq(q, 1, Len(p)) = p

\* neither path is a prefix of the other
Unrelated(p, q) == ~IsPrefix(p, q) /\ ~IsPrefix(q, p)

\* the paths the documents of the model can store a value at
FramePaths == SeqsUpTo({"a", "b", "constructor", "0"}, MaxDepth) \ {<<>>}

\* the two documents store the same at path q: nothing, or the same value
SameAt(old, new, q) ==
    /\ StoredAlong(old, q) <=> StoredAlong(new, q)
    /\ StoredAlong(old, q) => StoredValue(old, q) = StoredValue(new, q)

\* C18: a set(L, P, V) that returns true leaves the files of every other
\* locale as they were, and in the document of L every path that is neither
\* P, a prefix of P nor an extension of P stores after the call what it
\* stored before it, whoever wrote it.
C18_SetFrame ==
    [][(last'.op = "set" /\ last'.out = "applied" /\ calls' = calls + 1) =>
          /\ jsFile' = jsFile
          /\ \A l \in Locales \ {last'.locale} : jsonFile'[l] = jsonFile[l]
          /\ \E old \in {loadLocale(jsonFile, jsFile, last'.locale)} :
             \E new \in {loadLocale(jsonFile', jsFile', last'.locale)} :
                /\ new.ok
                /\ \A q \in FramePaths :
                      Unrelated(q, last'.path) => SameAt(old.node, new.node, q)]_vars

\* a set was applied to a document that an edit from outside had written, and
\* the value the edit wrote beside the path is still there
C18_Witness ==
    /\ calls = 2
    /\ last.op = "set" /\ last.out = "applied" /\ last.path = <<"a", "a">>
    /\ DocOf(last.pre, last.locale).node = DocEditedNested
    /\ StoredAlong(DocOf(jsonFile, last.locale).node, <<"a", "a">>)
    /\ StoredAlong(DocOf(jsonFile, last.locale).node, <<"a", "b">>)
    /\ StoredValue(DocOf(jsonFile, last.locale).node, <<"a", "b">>) = Str("edited")
    /\ StoredValue(DocOf(jsonFile, last.locale).node, <<"b">>) = Str("edited")

\* ----------------------------------------------------------------------- C19
\* C19: set saves the document it loaded with its own change: when it
\* returns true, every path beside P stores in L's file what the loaded
\* document stored, whatever another writer put in the file after the load,
\* and the value true is returned all the same.
C19_LastWriterWins ==
    [][(pending.active /\ ~pending'.active /\ last'.out = "applied") =>
          /\ last'.ret = Bool(TRUE)
          /\ \E new \in {loadLocale(jsonFile', jsFile', pending.locale)} :
                /\ new.ok
                /\ \A q \in FramePaths :
                      Unrelated(q, pending.path) =>
                          SameAt(pending.content.node, new.node, q)]_vars

\* set returned true after another writer had replaced the file it had
\* loaded, and what that writer wrote beside the path is gone
C19_Witness ==
    /\ calls = 2
    /\ last.op = "set" /\ last.out = "applied" /\ last.ret = Bool(TRUE)
    /\ last.path = <<"a", "a">>
    /\ last.pre[last.locale] = File(Stringify(DocEditedNested))
    /\ ~StoredAlong(DocOf(jsonFile, last.locale).node, <<"a", "b">>)
    /\ StoredAlong(DocOf(jsonFile, last.locale).node, <<"b">>)
    /\ StoredValue(DocOf(jsonFile, last.locale).node, <<"b">>) = Str("t")

\* ----------------------------------------------------------------------- C20
RECURSIVE AttemptsOf(_, _, _)

\* the calls of set() that merge owes for the entries from i on: one for each
\* entry, in the order of the entries
AttemptsOf(locale, entries, i) ==
    IF i > Len(entries) THEN <<>>
    ELSE <<[locale |-> locale, path |-> entries[i].k]>>
         \o AttemptsOf(locale, entries, i + 1)

RECURSIVE BatchAttemptsOf(_, _)

\* the calls batchUpdate owes: those of merge for each known locale, none for
\* an unknown one
BatchAttemptsOf(updates, i) ==
    IF i > Len(updates) THEN <<>>
    ELSE (IF Includes(locales, updates[i].k)
          THEN AttemptsOf(updates[i].k, updates[i].v, 1) ELSE <<>>)
         \o BatchAttemptsOf(updates, i + 1)

\* the calls of set() that were made, in their order
Attempted(outs) ==
    LET made == SelectSeq(outs, LAMBDA o : o.out # "unknown")
    IN [i \in 1..Len(made) |-> [locale |-> made[i].locale, path |-> made[i].path]]

\* C20: merge attempts set() for every entry of M in M's order, whatever the
\* set() of an earlier entry did, and batchUpdate does so for every known
\* locale of the updates, passing over the unknown ones.
C20_EveryEntryAttempted ==
    /\ last.op = "merge" =>
          Attempted(last.outs) = AttemptsOf(last.locale, last.value, 1)
    /\ last.op = "batchUpdate" =>
          Attempted(last.outs) = BatchAttemptsOf(last.value, 1)


\* ----------------------------------------------------------------------- C21
\* the step is a set() that returned true on a locale that had a .js file
\* with a loadable literal and no .json file
MigratingSet ==
    /\ last'.op = "set" /\ last'.ret = Bool(TRUE) /\ calls' = calls + 1
    /\ ~jsonFile[last'.locale].exists
    /\ jsFile[last'.locale].exists
    /\ loadLocale(jsonFile, jsFile, last'.locale).ok

\* C21: the first successful set on a locale that exists only as a .js file
\* with an extractable literal leaves the .js file as it was and writes a
\* .json file that holds the extracted document (every path beside P stores
\* what the literal stored) plus the new value (P resolves to V); once the
\* .json file exists, an edit of the .js file changes no load of the locale.
C21_MigratesToJson ==
    [][/\ MigratingSet =>
            /\ jsFile' = jsFile
            /\ jsonFile'[last'.locale].exists
            /\ get(jsonFile', jsFile', last'.locale, last'.path) = last'.value
            /\ \E old \in {loadLocale(jsonFile, jsFile, last'.locale)} :
               \E new \in {loadLocale(jsonFile', jsFile', last'.locale)} :
                  /\ new.ok
                  /\ \A q \in FramePaths :
                        Unrelated(q, last'.path) => SameAt(old.node, new.node, q)
       /\ (last'.op = "editJs" /\ calls' = calls + 1) =>
            \A l \in Locales :
               jsonFile[l].exists =>
                  loadLocale(jsonFile', jsFile', l) = loadLocale(jsonFile, jsFile, l)]_vars


\* ----------------------------------------------------------------------- C22
\* the locales that have a file in the directory
Available == {l \in DOMAIN jsonFile : jsonFile[l].exists \/ jsFile[l].exists}

\* the entries of possibleBaseLocales that are available
Probed == {i \in 1..Len(possibleBaseLocales) : possibleBaseLocales[i] \in Available}

\* the available locale that comes first in lexical order
LexicallyFirst ==
    DetectNames[CHOOSE i \in 1..Len(DetectNames) :
                   /\ DetectNames[i] \in Available
                   /\ \A j \in 1..(i - 1) : DetectNames[j] \notin Available]

\* a fresh checker with no configured base has detected the base locale
AutoDetected ==
    /\ last.op = "detectBaseLocale"
    /\ last.src = Str("")
    /\ last.out # "cached"

\* C22: with no configured base, detection returns the first entry of
\* (en, en-US, en-GB, en_US, en_GB) that is a known locale; if none is, the
\* lexically first known locale, with a warning; if there is no locale at
\* all, null. The locale it returns is one loadDefaultTranslations loads.
C22_DetectedBaseLoads ==
    AutoDetected =>
       /\ Probed # {} =>
             /\ last.locale = possibleBaseLocales[CHOOSE i \in Probed :
                                                     \A j \in Probed : i <= j]
             /\ last.out = "english"
       /\ (Probed = {} /\ Available # {}) =>
             /\ last.locale = LexicallyFirst
             /\ last.out = "warned"
       /\ Available = {} => last.ret = Null
       /\ last.ret # Null => loadDefaultTranslations(jsonFile, last.locale).ok


\* ----------------------------------------------------------------------- C23
\* the base locale document of the last cross-check loaded
BaseLoaded ==
    /\ last.op = "checkMissingTranslations"
    /\ loadDefaultTranslations(jsonFile, last.locale).ok

ListSet(list) == {list[i] : i \in 1..Len(list)}

\* C23: whenever the base locale document loads, checkMissingTranslations
\* passes its reporting step without raising and returns a result whose
\* missingKeys and foundKeys are disjoint, together are the keys extracted
\* from the project, and whose foundKeys are the keys that resolve in the
\* base document to a value that is neither null nor the empty string.
C23_PartitionReturned ==
    BaseLoaded =>
       /\ last.out = "returned"
       /\ last.ret # Undefined
       /\ ListSet(last.ret.missingKeys) \cap ListSet(last.ret.foundKeys) = {}
       /\ ListSet(last.ret.missingKeys) \cup ListSet(last.ret.foundKeys)
             = ListSet(extractTKeys(Lines(last.value, 1)))
       /\ \A key \in ListSet(extractTKeys(Lines(last.value, 1))) :
             key \in ListSet(last.ret.foundKeys) <=>
                get(jsonFile, jsFile, last.locale, KeySegments(key))
                   \notin {Null, Undefined, Str("")}


\* ----------------------------------------------------------------------- C24
\* the last scan was of a line of a file of the extension; the record keeps
\* the extension as `locale` and the line as `path`
Scanned(ext) == last.op = "scanLine" /\ last.locale = ext

FindingTexts == {last.ret[i].text : i \in 1..Len(last.ret)}

\* the exclusion ruleset, told of the texts of the model one by one
Rejected ==
    {<<"SUBMIT">>, <<"submit">>, <<"faq">>, <<"DELETE">>,
     <<"https://", "example.com/help">>, <<"./", "help">>, <<"docs/About.html">>,
     <<"12px">>, <<"#fff">>}

Findings == {last.ret[i] : i \in 1..Len(last.ret)}

Categories == {"title", "placeholder", "button", "label", "message", "description", "text"}

Severities == {"high", "medium", "low"}

\* a keyword cue of the categories is on the scanned line: of the cues, the
\* lines of the model hold "title:", "button" and "click"
CueOnLine ==
    \/ \E i \in 1..(Len(last.path) - 1) : last.path[i] = "title" /\ last.path[i + 1] = ":"
    \/ \E i \in 1..Len(last.path) : last.path[i] \in {"button", "click"}

OnDisk == {l \in Locales : last.pre[l].exists \/ jsFile[l].exists}

\* C26: the locales that setMultiple accepts, that getAll and getMissing go
\* over and that copy takes as default targets are the locales whose files
\* are in the directory at the time of the call, whether the file was there
\* when the helper was constructed or not.
C26_KnownLocalesAreCurrent ==
    /\ last.op = "setMultiple" =>
          \A i \in 1..Len(last.value.kv) :
             last.value.kv[i].k \in OnDisk
                <=> Lookup(last.outs, last.value.kv[i].k) # Str("unknown")
    /\ last.op \in {"getAll", "getMissing"} =>
          {last.value[i] : i \in 1..Len(last.value)} = OnDisk
    /\ (last.op = "copy" /\ last.out # "nosource") =>
          {last.value.kv[i].v.s : i \in 1..Len(last.value.kv)}
             = OnDisk \ {last.locale}


\* ----------------------------------------------------------------------- C27
\* the place of a locale identifier in lexical order
Rank(l) == CHOOSE i \in 1..Len(SortedNames) : SortedNames[i] = l

Distinct(list) == \A i, j \in 1..Len(list) : list[i] = list[j] => i = j

\* C27: the list scanLocales / getLocales returns is sorted lexically and
\* holds no locale identifier twice, also when a locale has both a .json and
\* a .js file; getMissing and copy go over each locale at most once.
C27_SortedWithoutDuplicates ==
    /\ last.op \in {"getLocales", "scanLocales"} =>
          /\ \A i, j \in 1..Len(last.ret) :
                i < j => Rank(last.ret[i]) <= Rank(last.ret[j])
          /\ Distinct(last.ret)
    /\ last.op = "getMissing" => Distinct(last.value) /\ Distinct(last.ret)
    /\ (last.op = "copy" /\ last.out # "nosource") =>
          Distinct([i \in 1..Len(last.value.kv) |-> last.value.kv[i].v])


\* ----------------------------------------------------------------------- C28
\* the per-locale entries of the last report
ReportEntries ==
    IF last.op = "getStats" /\ last.ret # Null
    THEN {last.ret.kv[i].v : i \in 1..Len(last.ret.kv)}
    ELSE IF last.op = "checkTranslations" /\ last.ret # Null
    THEN {last.ret.locales.kv[i].v : i \in 1..Len(last.ret.locales.kv)}
    ELSE {}

\* the leaf paths of the base document
BaseLeafPaths == getAllPaths(DocOf(jsonFile, BaseLocale).node)

\* C28: in every per-locale entry of getStats and checkTranslations, total
\* is the number of leaf paths of the base document, complete + missing =
\* total, missing is the length of missingPaths, 0 <= missing <= total, and
\* percentage is a number from 0.0 to 100.0 that equals complete / total to
\* one decimal, also when the base document has no leaf path.
C28_EntryArithmetic ==
    \A e \in ReportEntries :
       /\ e.total = Len(BaseLeafPaths)
       /\ e.complete + e.missing = e.total
       /\ e.missing = Len(e.missingPaths)
       /\ 0 <= e.missing /\ e.missing <= e.total
       /\ ~e.percentage.nan
       /\ 0 <= e.percentage.tenths /\ e.percentage.tenths <= 1000
       /\ e.total > 0 =>
             /\ 2 * (1000 * e.complete - e.percentage.tenths * e.total) <= e.total
             /\ 2 * (e.percentage.tenths * e.total - 1000 * e.complete) <= e.total


\* ----------------------------------------------------------------------- C29
\* C29: checkHardcodedStrings scans a file exactly when its extension is in
\* the extensions list, its name is not in excludeFiles and no directory
\* above it, below the project root, is named as an entry of excludeDirs; a
\* file or directory whose name only holds an excluded name as a substring
\* (builder, distribution.vue) is scanned.
C29_ScannedExactly ==
    last.op = "scanDirectory" =>
       last.ret =
          {f \in last.value.files :
              /\ ExtName(f[Len(f)]) \in last.value.extensions
              /\ f[Len(f)] \notin last.value.excludeFiles
              /\ \A i \in 1..(Len(f) - 1) :
                    f[i] \notin {"node_modules", ".git", "dist", "build", ".nuxt", ".output"}}


\* ----------------------------------------------------------------------- C30
RECURSIVE LeafValueAt(_, _)

\* the value of the leaf that idx leads to
LeafValueAt(obj, idx) ==
    IF Len(idx) = 1 THEN obj.kv[Head(idx)].v
    ELSE LeafValueAt(obj.kv[Head(idx)].v, Tail(idx))

\* the leaves of the stored document whose enumerated path the last call
\* looked up
LeavesLookedUp ==
    IF last.op \in {"get", "has"} /\ LoadsObject(last.pre, last.locale)
    THEN {idx \in LeafIndexes(DocOf(last.pre, last.locale).node) :
             KeyPathAt(DocOf(last.pre, last.locale).node, idx) = last.path}
    ELSE {}

\* C30: every path that _getAllPaths enumerates for the stored document of
\* a locale resolves through get to the value of the leaf it was enumerated
\* for, and has answers true for it, so that a locale checked against itself
\* misses no key; also for a leaf whose value is null and for a key whose
\* name holds a dot.
C30_EnumeratedPathsResolve ==
    \A idx \in LeavesLookedUp :
       /\ last.op = "get" =>
             last.ret = LeafValueAt(DocOf(last.pre, last.locale).node, idx)
       /\ last.op = "has" => last.ret = Bool(TRUE)
       /\ MissingPaths(last.pre, jsFile, last.locale,
                       getAllPaths(DocOf(last.pre, last.locale).node)) = <<>>

====
